---- MODULE Spec2Model ----
(***************************************************************************)
(* az-bot: the pax outreach queue (PaxQueueService over the `pax` and      *)
(* `messages` collections) and the message log written by the intake flow  *)
(* (ConversationService).                                                  *)
(*                                                                         *)
(* Strings are sequences of tokens: " " is a blank, every other token is a *)
(* run of non-blank characters.  Documents are records; a collection is a  *)
(* set (pax) or a sequence in insertion order (messages).  The fields      *)
(* name and email of a pax are payload that no query reads and are left    *)
(* out of the documents.                                                   *)
(***************************************************************************)
EXTENDS Integers, Sequences, FiniteSets, TLC

VARIABLES
    pax,          \* the `pax` collection: a set of documents
    messages,     \* the `messages` collection, in insertion order
    qrSaved,      \* history: phones for which saveMessage(.., 'out', 'image', true) ran
    strictQuery,  \* the strictQuery setting of the mongoose build in use
    operator,     \* an operator working the queue: what they do next, the entry
                  \* they hold, the entry they recycled last
    callers,      \* clients whose requests overlap: for each the await its
                  \* request stands at and the request's local variables
    turn,         \* the last webhook delivery handled: what came in, what the
                  \* collaborators did, the steps taken in order, the result
    call,         \* the last call of a function without side effects: its
                  \* name, its argument, what it returned
    conversations, \* the `conversations` collection of the persisted flow:
                  \* for each phone its document, if any
    importer,     \* an importPaxList call in progress: where it is, the
                  \* candidates still to go, its counters
    reply         \* the last delivery handled by the persisted flow: what came
                  \* in, the document found, the steps taken, the result; and
                  \* history: per phone the invalid messages handled since the
                  \* conversation came to await a CPF, in all and in a row

store == <<pax, messages, qrSaved, strictQuery>>
aside == <<call, conversations, reply, importer>>
vars ==
    <<pax, messages, qrSaved, strictQuery, operator, callers, turn, call,
      conversations, reply, importer>>

-----------------------------------------------------------------------------
(* Bounds *)

MaxBatch == 2    \* candidates in one import request
MaxSeq == 5      \* largest sequenceId handed out
MaxLog == 4      \* records in the message log
MaxOperatorLog == 2  \* records in the message log while the operator works
MaxTurns == 2    \* webhook deliveries with their steps on record
MaxCalls == 2    \* calls of a function without side effects, one after the other
MaxKey == 3      \* characters in a lookup key
MaxDeliveries == 5  \* webhook deliveries handled by the persisted flow
MaxImports == 1  \* importPaxList calls that overlap with the mark requests

-----------------------------------------------------------------------------
(* Strings *)

RECURSIVE TrimLeft(_)
TrimLeft(s) ==
    IF s # <<>> /\ Head(s) = " " THEN TrimLeft(Tail(s)) ELSE s

RECURSIVE TrimRight(_)
TrimRight(s) ==
    IF s # <<>> /\ s[Len(s)] = " " THEN TrimRight(SubSeq(s, 1, Len(s) - 1)) ELSE s

\* String.prototype.trim, also the `trim: true` setter of the schemas
Trim(s) == TrimRight(TrimLeft(s))

CpfA == <<"11111111111">>
CpfB == <<"22222222222">>
CpfC == <<"33333333333">>
CpfAPadded == <<"11111111111", " ">>
PhoneA == <<"5511999990000">>
PhoneB == <<"5511888880000">>
Phones == {PhoneA, PhoneB}

\* the candidates a request body can carry (PaxImportData): Ana, Ana again
\* with a trailing blank in the cpf, Bia on another phone, Caio on Ana's phone
PaxImportData ==
    { [cpf |-> CpfA, phoneNumber |-> PhoneA],
      [cpf |-> CpfAPadded, phoneNumber |-> PhoneA],
      [cpf |-> CpfB, phoneNumber |-> PhoneB],
      [cpf |-> CpfC, phoneNumber |-> PhoneA] }
PaxLists == UNION {[1..n -> PaxImportData] : n \in 1..MaxBatch}

\* _id of a new document.  ObjectIds are opaque and unique; the model names
\* a document by its cpf, which the unique cpf index keeps injective.
ObjectId(cpf) ==
    CASE cpf = CpfA -> 1
      [] cpf = CpfB -> 2
      [] cpf = CpfC -> 3
      [] OTHER -> 4

\* ids a request can name: every document id, and one that matches nothing
PaxIds == {ObjectId(Trim(c.cpf)) : c \in PaxImportData} \cup {0}

\* whether the text of an :id path parameter is the text of an ObjectId.
\* The controller only tests that the parameter is not empty, and a query by
\* _id with any other text is rejected by the driver's cast (CastError).
CastsToObjectId(paxId) == paxId >= 0

\* the :id values a request can carry: the ids above and one that is not the
\* text of an ObjectId
RequestIds == PaxIds \cup {-2}

-----------------------------------------------------------------------------
(* The pax collection *)

NoPax == [id |-> -1, cpf |-> <<>>, phoneNumber |-> <<>>, sent |-> FALSE,
          unavailable |-> FALSE, sequenceId |-> 0]

\* Pax.findById
PaxFindById(coll, paxId) ==
    IF \E d \in coll : d.id = paxId
    THEN CHOOSE d \in coll : d.id = paxId
    ELSE NoPax

\* Pax.findOne({}, {sequenceId: 1}).sort({sequenceId: -1}), then
\* (doc?.sequenceId || 0)
MaxSequenceId(coll) ==
    IF coll = {} THEN 0
    ELSE CHOOSE m \in {d.sequenceId : d \in coll} :
             \A d \in coll : d.sequenceId <= m

\* the unique indexes gone wrong: sequenceId has none
PaxDuplicateKeyCpfOnly(others, doc) ==
    \E d \in others : d.cpf = doc.cpf

\* the unique indexes of PaxSchema (cpf, sequenceId): does doc collide with
\* one of the other documents?
PaxDuplicateKey(others, doc) ==
    \E d \in others : d.cpf = doc.cpf \/ d.sequenceId = doc.sequenceId

\* Pax.create: the schema's setters and defaults, then the insert.  A
\* violated unique index makes it throw and nothing is stored.
PaxCreate(coll, fields) ==
    LET doc == [id |-> ObjectId(Trim(fields.cpf)),
                cpf |-> Trim(fields.cpf),
                phoneNumber |-> Trim(fields.phoneNumber),
                sent |-> fields.sent,
                unavailable |-> FALSE,
                sequenceId |-> fields.sequenceId]
    IN  IF PaxDuplicateKey(coll, doc)
        THEN [threw |-> TRUE, coll |-> coll]
        ELSE [threw |-> FALSE, coll |-> coll \cup {doc}]

\* Pax.findOne({cpf: value}) gone wrong: the value is compared as given
PaxFindOneByCpfUntrimmed(coll, value) ==
    IF \E d \in coll : d.cpf = value
    THEN CHOOSE d \in coll : d.cpf = value
    ELSE NoPax

\* Pax.findOne({cpf: value}): the query value goes through the path's
\* setters (trim) before it is compared
PaxFindOneByCpf(coll, value) ==
    IF \E d \in coll : d.cpf = Trim(value)
    THEN CHOOSE d \in coll : d.cpf = Trim(value)
    ELSE NoPax

\* Pax.findByIdAndUpdate(paxId, update, {new: true, runValidators: true}):
\* "none" when no document has the id, "threw" when the updated document
\* collides with a unique index, else the collection with the document
\* replaced and the updated document
PaxFindByIdAndUpdate(coll, paxId, update) ==
    LET old == PaxFindById(coll, paxId)
        new == [k \in DOMAIN old |->
                   IF k \in DOMAIN update THEN update[k] ELSE old[k]]
    IN  IF old = NoPax
        THEN [outcome |-> "none", coll |-> coll, doc |-> NoPax]
        ELSE IF PaxDuplicateKey(coll \ {old}, new)
        THEN [outcome |-> "threw", coll |-> coll, doc |-> NoPax]
        ELSE [outcome |-> "ok", coll |-> (coll \ {old}) \cup {new}, doc |-> new]

-----------------------------------------------------------------------------
(* The messages collection *)

\* the paths of MessageSchema
MessageSchemaPaths ==
    {"from", "message", "caption", "deliveredAt", "status", "direction",
     "kind", "meta"}

\* Message.create under the schema's default strict mode: a field that is no
\* path of the schema is not stored
MessageCreate(fields) ==
    [k \in DOMAIN fields \cap MessageSchemaPaths |-> fields[k]]

\* a query filter on Message: with strictQuery a key that is no path of the
\* schema is removed from the filter, without it the key reaches the store
MessageCastFilter(filter) ==
    IF strictQuery
    THEN [k \in DOMAIN filter \cap MessageSchemaPaths |-> filter[k]]
    ELSE filter

\* does a stored document match a filter of equalities?
Matches(doc, filter) ==
    \A k \in DOMAIN filter : k \in DOMAIN doc /\ doc[k] = filter[k]

\* Message.distinct('from', filter)
MessageDistinctFrom(log, filter) ==
    {log[i].from : i \in {j \in 1..Len(log) :
                             Matches(log[j], MessageCastFilter(filter))}}

\* the save gone wrong: one record per phone and direction, the latest
SaveMessageKeepsLatest(log, phoneNumber, direction, kind, qrcodeMessage) ==
    LET doc == MessageCreate([from |-> phoneNumber, direction |-> direction,
                              kind |-> kind, qrcodeMessage |-> qrcodeMessage])
    IN  IF \E i \in 1..Len(log) :
              log[i].from = phoneNumber /\ log[i].direction = direction
        THEN [i \in 1..Len(log) |->
                 IF log[i].from = phoneNumber /\ log[i].direction = direction
                 THEN doc ELSE log[i]]
        ELSE Append(log, doc)

\* ConversationService.saveMessage: message text, status and deliveredAt are
\* payload no query reads
SaveMessage(log, phoneNumber, direction, kind, qrcodeMessage) ==
    Append(log, MessageCreate([from |-> phoneNumber, direction |-> direction,
                               kind |-> kind, qrcodeMessage |-> qrcodeMessage]))

-----------------------------------------------------------------------------
(* PaxQueueService *)

\* the phones that already received a QR code, as getNextPaxInQueue and
\* getQueueStats query them
PhonesWithQRCode(log) ==
    MessageDistinctFrom(log, [qrcodeMessage |-> TRUE, direction |-> "out",
                              kind |-> "image"])

\* the selection gone wrong: unavailable entries are filtered out as well
InQueueAvailableOnly(coll, phones) ==
    {d \in coll : ~d.sent /\ ~d.unavailable /\ d.phoneNumber \notin phones}

\* the documents matching {sent: false, phoneNumber: {$nin: phones}}
InQueue(coll, phones) ==
    {d \in coll : ~d.sent /\ d.phoneNumber \notin phones}

\* Pax.findOne({sent: false, phoneNumber: {$nin: phones}}).sort({sequenceId: 1})
FindNextPax(coll, phones) ==
    LET q == InQueue(coll, phones)
    IN  IF q = {} THEN NoPax
        ELSE CHOOSE d \in q : \A e \in q : d.sequenceId <= e.sequenceId

\* the shape of every result
NoResult ==
    [op |-> "none", paxId |-> -1, paxList |-> <<>>, success |-> FALSE,
     message |-> "", pax |-> NoPax, imported |-> 0, duplicates |-> 0,
     errors |-> 0, queuePosition |-> 0, totalInQueue |-> 0,
     unavailableCount |-> 0]

\* getNextPaxInQueue, every read taken from the same state
GetNextPaxInQueueResult(coll, log) ==
    LET phonesWithQRCode == PhonesWithQRCode(log)
        nextPax == FindNextPax(coll, phonesWithQRCode)
        q == InQueue(coll, phonesWithQRCode)
    IN  IF nextPax = NoPax
        THEN [NoResult EXCEPT !.op = "getNextPaxInQueue",
                              !.message = "Queue is empty"]
        ELSE [NoResult EXCEPT
                 !.op = "getNextPaxInQueue",
                 !.success = TRUE,
                 !.message = "Next pax found",
                 !.pax = nextPax,
                 !.queuePosition =
                     Cardinality({d \in q : d.sequenceId <= nextPax.sequenceId}),
                 !.totalInQueue = Cardinality(q),
                 !.unavailableCount = Cardinality({d \in q : d.unavailable})]

\* markPaxAsUnavailable gone wrong: the entry takes over the current maximum
\* instead of maximum + 1, written past the unique index
MarkPaxAsUnavailableTakesMax(coll, paxId) ==
    LET currentPax == PaxFindById(coll, paxId)
        updated == [currentPax EXCEPT !.unavailable = TRUE,
                                      !.sequenceId = MaxSequenceId(coll)]
        res == [NoResult EXCEPT !.op = "markPaxAsUnavailable", !.paxId = paxId]
    IN  IF currentPax = NoPax
        THEN [coll |-> coll, result |-> [res EXCEPT !.message = "Pax not found"]]
        ELSE [coll |-> (coll \ {currentPax}) \cup {updated},
              result |-> [res EXCEPT !.success = TRUE, !.pax = updated]]

\* markPaxAsUnavailable gone wrong: it also puts the entry back to sent = false
MarkPaxAsUnavailableResetsSent(coll, paxId) ==
    LET currentPax == PaxFindById(coll, paxId)
        upd == PaxFindByIdAndUpdate(coll, paxId,
                   [unavailable |-> TRUE, sent |-> FALSE,
                    sequenceId |-> MaxSequenceId(coll) + 1])
        res == [NoResult EXCEPT !.op = "markPaxAsUnavailable", !.paxId = paxId]
    IN  IF currentPax = NoPax \/ upd.outcome # "ok"
        THEN [coll |-> coll, result |-> [res EXCEPT !.message = "Pax not found"]]
        ELSE [coll |-> upd.coll,
              result |-> [res EXCEPT !.success = TRUE, !.pax = upd.doc]]

\* markPaxAsUnavailable gone wrong: the flag is set and the entry keeps its
\* place
MarkPaxAsUnavailableKeepsPlace(coll, paxId) ==
    LET currentPax == PaxFindById(coll, paxId)
        upd == PaxFindByIdAndUpdate(coll, paxId, [unavailable |-> TRUE])
        res == [NoResult EXCEPT !.op = "markPaxAsUnavailable", !.paxId = paxId]
    IN  IF currentPax = NoPax \/ upd.outcome # "ok"
        THEN [coll |-> coll, result |-> [res EXCEPT !.message = "Pax not found"]]
        ELSE [coll |-> upd.coll,
              result |-> [res EXCEPT !.success = TRUE, !.pax = upd.doc]]

\* markPaxAsUnavailable gone wrong: the entry's own sequenceId + 1 instead of
\* the maximum + 1
MarkPaxAsUnavailableOwnPlusOne(coll, paxId) ==
    LET currentPax == PaxFindById(coll, paxId)
        upd == PaxFindByIdAndUpdate(coll, paxId,
                   [unavailable |-> TRUE,
                    sequenceId |-> currentPax.sequenceId + 1])
        res == [NoResult EXCEPT !.op = "markPaxAsUnavailable", !.paxId = paxId]
    IN  IF currentPax = NoPax \/ upd.outcome # "ok"
        THEN [coll |-> coll, result |-> [res EXCEPT !.message = "Pax not found"]]
        ELSE [coll |-> upd.coll,
              result |-> [res EXCEPT !.success = TRUE, !.pax = upd.doc]]

\* markPaxAsUnavailable gone wrong: the update is an upsert, so an id that no
\* entry has adds one at the end of the queue
MarkPaxAsUnavailableUpserts(coll, paxId) ==
    LET currentPax == PaxFindById(coll, paxId)
        newSequenceId == MaxSequenceId(coll) + 1
        new == [NoPax EXCEPT !.id = paxId, !.unavailable = TRUE,
                             !.sequenceId = newSequenceId]
        upd == PaxFindByIdAndUpdate(coll, paxId,
                   [unavailable |-> TRUE, sequenceId |-> newSequenceId])
        res == [NoResult EXCEPT !.op = "markPaxAsUnavailable", !.paxId = paxId]
    IN  IF ~CastsToObjectId(paxId) \/ upd.outcome = "threw"
        THEN [coll |-> coll,
              result |-> [res EXCEPT !.message = "Internal error marking pax as unavailable"]]
        ELSE IF currentPax = NoPax
        THEN [coll |-> coll \cup {new},
              result |-> [res EXCEPT !.success = TRUE, !.pax = new,
                                     !.message = "marked as unavailable and moved to end of queue"]]
        ELSE [coll |-> upd.coll,
              result |-> [res EXCEPT !.success = TRUE, !.pax = upd.doc,
                                     !.message = "marked as unavailable and moved to end of queue"]]

\* markPaxAsUnavailable: the new collection and the result
MarkPaxAsUnavailableResult(coll, paxId) ==
    LET currentPax == PaxFindById(coll, paxId)
        newSequenceId == MaxSequenceId(coll) + 1
        upd == PaxFindByIdAndUpdate(coll, paxId,
                   [unavailable |-> TRUE, sequenceId |-> newSequenceId])
        res == [NoResult EXCEPT !.op = "markPaxAsUnavailable", !.paxId = paxId]
    IN  IF ~CastsToObjectId(paxId)
        THEN [coll |-> coll,
              result |-> [res EXCEPT !.message = "Internal error marking pax as unavailable"]]
        ELSE IF currentPax = NoPax
        THEN [coll |-> coll, result |-> [res EXCEPT !.message = "Pax not found"]]
        ELSE IF upd.outcome = "threw"
        THEN [coll |-> coll,
              result |-> [res EXCEPT !.message = "Internal error marking pax as unavailable"]]
        ELSE IF upd.outcome = "none"
        THEN [coll |-> coll, result |-> [res EXCEPT !.message = "Error updating pax"]]
        ELSE [coll |-> upd.coll,
              result |-> [res EXCEPT !.success = TRUE, !.pax = upd.doc,
                                     !.message = "marked as unavailable and moved to end of queue"]]

\* getQueueStats, every read taken from the same state
GetQueueStatsResult(coll, log) ==
    LET phonesWithQRCode == PhonesWithQRCode(log)
    IN  [total |-> Cardinality(coll),
         sent |-> Cardinality({d \in coll : d.sent}),
         pending |-> Cardinality(coll) - Cardinality({d \in coll : d.sent}),
         withQRCode |-> Cardinality(phonesWithQRCode),
         nextInQueue |-> Cardinality(InQueue(coll, phonesWithQRCode)),
         unavailable |-> Cardinality({d \in coll : d.unavailable})]

\* markPaxAsSent gone wrong: the entry is also put back as available
MarkPaxAsSentClearsUnavailable(coll, paxId) ==
    LET upd == PaxFindByIdAndUpdate(coll, paxId,
                   [sent |-> TRUE, unavailable |-> FALSE])
        res == [NoResult EXCEPT !.op = "markPaxAsSent", !.paxId = paxId]
    IN  IF upd.outcome = "ok"
        THEN [coll |-> upd.coll,
              result |-> [res EXCEPT !.success = TRUE, !.pax = upd.doc,
                                     !.message = "marked as sent"]]
        ELSE [coll |-> coll, result |-> [res EXCEPT !.message = "Pax not found"]]

\* markPaxAsSent: the new collection and the result
MarkPaxAsSentResult(coll, paxId) ==
    LET upd == PaxFindByIdAndUpdate(coll, paxId, [sent |-> TRUE])
        res == [NoResult EXCEPT !.op = "markPaxAsSent", !.paxId = paxId]
    IN  IF ~CastsToObjectId(paxId)
        THEN [coll |-> coll,
              result |-> [res EXCEPT !.message = "Internal error marking pax as sent"]]
        ELSE IF upd.outcome = "none"
        THEN [coll |-> coll, result |-> [res EXCEPT !.message = "Pax not found"]]
        ELSE IF upd.outcome = "threw"
        THEN [coll |-> coll,
              result |-> [res EXCEPT !.message = "Internal error marking pax as sent"]]
        ELSE [coll |-> upd.coll,
              result |-> [res EXCEPT !.success = TRUE, !.pax = upd.doc,
                                     !.message = "marked as sent"]]

\* one pass of importPaxList's loop body over paxData; acc carries the
\* collection, the running counter and the three tallies
ImportOne(acc, paxData) ==
    LET existingPax == PaxFindOneByCpf(acc.coll, paxData.cpf)
        created == PaxCreate(acc.coll,
                       [cpf |-> Trim(paxData.cpf),
                        phoneNumber |-> Trim(paxData.phoneNumber),
                        sent |-> FALSE,
                        sequenceId |-> acc.currentSequenceId])
    IN  IF existingPax # NoPax
        THEN [acc EXCEPT !.duplicates = @ + 1]
        ELSE IF created.threw
        THEN [acc EXCEPT !.currentSequenceId = @ + 1, !.errors = @ + 1]
        ELSE [acc EXCEPT !.coll = created.coll, !.currentSequenceId = @ + 1,
                         !.imported = @ + 1]

RECURSIVE ImportLoop(_, _)
ImportLoop(acc, paxList) ==
    IF paxList = <<>> THEN acc
    ELSE ImportLoop(ImportOne(acc, Head(paxList)), Tail(paxList))

\* importPaxList gone wrong: the counter starts at the number of documents
\* + 1 instead of the maximum sequenceId + 1
ImportPaxListCountSeed(coll, paxList) ==
    LET done == ImportLoop([coll |-> coll,
                            currentSequenceId |-> Cardinality(coll) + 1,
                            imported |-> 0, duplicates |-> 0, errors |-> 0],
                           paxList)
    IN  [coll |-> done.coll,
         result |-> [NoResult EXCEPT !.op = "importPaxList",
                                     !.paxList = paxList,
                                     !.success = TRUE,
                                     !.imported = done.imported,
                                     !.duplicates = done.duplicates,
                                     !.errors = done.errors]]

\* importPaxList: the new collection and the result
ImportPaxListResult(coll, paxList) ==
    LET done == ImportLoop([coll |-> coll,
                            currentSequenceId |-> MaxSequenceId(coll) + 1,
                            imported |-> 0, duplicates |-> 0, errors |-> 0],
                           paxList)
    IN  [coll |-> done.coll,
         result |-> [NoResult EXCEPT !.op = "importPaxList",
                                     !.paxList = paxList,
                                     !.success = TRUE,
                                     !.message = "Import completed",
                                     !.imported = done.imported,
                                     !.duplicates = done.duplicates,
                                     !.errors = done.errors]]

-----------------------------------------------------------------------------
(* ConversationService, the stateless flow: one turn per inbound message *)

Digits == {"0", "1", "2", "3", "4", "5", "6", "7", "8", "9"}

\* parseInt of one digit character
DigitValue(c) ==
    CASE c = "0" -> 0 [] c = "1" -> 1 [] c = "2" -> 2 [] c = "3" -> 3
      [] c = "4" -> 4 [] c = "5" -> 5 [] c = "6" -> 6 [] c = "7" -> 7
      [] c = "8" -> 8 [] c = "9" -> 9

IsDigit(c) == c \in Digits

\* text.replace(/\D/g, ''), also cleanCpf
CleanCpf(text) == SelectSeq(text, IsDigit)

\* isValidCpfFormat: 11 digits, not all the same
IsValidCpfFormat(cpf) ==
    LET cleaned == CleanCpf(cpf)
    IN  /\ Len(cleaned) = 11
        /\ ~(\A i \in 1..11 : cleaned[i] = cleaned[1])

RECURSIVE CpfWeightedSum(_, _, _)
\* the loop of calculateCpfDigit: sum of cpf[i] * weight-- for i < position
CpfWeightedSum(cpf, position, i) ==
    IF i >= position THEN 0
    ELSE DigitValue(cpf[i + 1]) * (position + 1 - i)
         + CpfWeightedSum(cpf, position, i + 1)

\* calculateCpfDigit gone wrong: a remainder below 2 is subtracted from 11
\* like any other
CalculateCpfDigitNoZeroRule(cpf, position) ==
    11 - (CpfWeightedSum(cpf, position, 0) % 11)

CalculateCpfDigit(cpf, position) ==
    LET remainder == CpfWeightedSum(cpf, position, 0) % 11
    IN  IF remainder < 2 THEN 0 ELSE 11 - remainder

IsValidCpf(cpf) ==
    /\ IsValidCpfFormat(cpf)
    /\ LET cleaned == CleanCpf(cpf)
       IN  /\ CalculateCpfDigit(cleaned, 9) = DigitValue(cleaned[10])
           /\ CalculateCpfDigit(cleaned, 10) = DigitValue(cleaned[11])

\* /^[^\s@]+@[^\s@]+\.[^\s@]+$/.test(s)
EmailRegexTest(s) ==
    /\ \A i \in 1..Len(s) : s[i] # " "
    /\ \E at \in 2..(Len(s) - 3) :
          /\ s[at] = "@"
          /\ \A i \in 1..Len(s) : s[i] = "@" => i = at
          /\ \E dot \in (at + 2)..(Len(s) - 1) : s[dot] = "."

\* the inbound texts of the model
TextOla == <<"o", "l", "a">>
Text123 == <<"1", "2", "3">>
TextCpf == <<"5", "2", "9", "9", "8", "2", "2", "4", "7", "2", "5">>
TextCpfFormatted ==
    <<"5", "2", "9", ".", "9", "8", "2", ".", "2", "4", "7", "-", "2", "5">>
TextCpfTenDigits == <<"1", "2", "3", "4", "5", "6", "7", "8", "9", "0">>
TextCpfTenDigitsBad ==
    <<"1", "2", "3", ".", "4", "5", "6", ".", "7", "8", "9", "-", "1">>
TextCpfRepeated == <<"1", "1", "1", "1", "1", "1", "1", "1", "1", "1", "1">>
TextCpfBadCheck == <<"5", "2", "9", "9", "8", "2", "2", "4", "7", "2", "4">>
TextEmail == <<" ", "a", "n", "a", "@", "x", ".", "c", "o", "m">>
TextEmailBad == <<"a", "n", "a", "@", "x">>
Texts ==
    {TextOla, Text123, TextCpf, TextCpfFormatted, TextCpfTenDigits,
     TextCpfTenDigitsBad,
     TextCpfRepeated, TextCpfBadCheck, TextEmail, TextEmailBad}

\* what the registry answers to a lookup
RegistryAnswers == {"found", "notFound", "failed"}

\* the lookup gone wrong: nobody is ever found
ValidationFoundNever(answer) == FALSE

\* the lookup gone wrong: only a plain not-found counts as not found
ValidationFoundUnlessRefused(answer) == answer # "notFound"

\* AZListService.validateCPF / validateEmail: every failure is caught and
\* comes back as found = false
ValidationFound(answer) == answer = "found"

\* processCPF up to the decision: "invalid_cpf", "found", "not_found" or,
\* when building the QR image throws, "error"
ProcessCpfOutcome(cpf, answer, qrOk) ==
    IF Len(cpf) # 11 \/ \E i \in 1..Len(cpf) : ~IsDigit(cpf[i])
    THEN "invalid_cpf"
    ELSE IF \A i \in 1..11 : cpf[i] = cpf[1] THEN "invalid_cpf"
    ELSE IF ~IsValidCpf(cpf) THEN "invalid_cpf"
    ELSE IF ValidationFound(answer)
    THEN (IF qrOk THEN "found" ELSE "error")
    ELSE "not_found"

\* processCPFFlow
ProcessCpfFlowOutcome(messageText, answer, qrOk) ==
    LET numbersOnly == CleanCpf(messageText)
    IN  IF Len(numbersOnly) = 0 THEN "initial_prompt"
        ELSE IF Len(numbersOnly) = 11
        THEN ProcessCpfOutcome(numbersOnly, answer, qrOk)
        ELSE IF Len(numbersOnly) = 10
        THEN ProcessCpfOutcome(<<"0">> \o numbersOnly, answer, qrOk)
        ELSE "invalid_format"

\* processEmailFlow and processEmail
ProcessEmailFlowOutcome(messageText, answer, qrOk) ==
    LET trimmedMessage == Trim(messageText)
    IN  IF EmailRegexTest(trimmedMessage)
        THEN (IF ValidationFound(answer)
              THEN (IF qrOk THEN "found" ELSE "error")
              ELSE "not_found")
        ELSE IF \E i \in 1..Len(trimmedMessage) : trimmedMessage[i] = "@"
        THEN "invalid_format"
        ELSE "initial_prompt"

\* the decision of a turn under either flow, for every text of the model,
\* every registry answer and both behaviours of the QR encoder
ProcessMessageOutcome ==
    [flowType \in {"cpf", "email"}, messageText \in Texts,
     answer \in RegistryAnswers, qrOk \in BOOLEAN |->
        IF flowType = "email"
        THEN ProcessEmailFlowOutcome(messageText, answer, qrOk)
        ELSE ProcessCpfFlowOutcome(messageText, answer, qrOk)]

\* processMessage: the inbound record, then the turn's one outbound record.
\* The gateway calls return a result instead of throwing and the result is
\* not read, so the outbound record follows whatever the send did.
ProcessMessageLog(log, flowType, phoneNumber, messageText, answer, qrOk) ==
    LET outcome == ProcessMessageOutcome[flowType, messageText, answer, qrOk]
        inbound == SaveMessage(log, phoneNumber, "in", "text", FALSE)
    IN  IF outcome = "found"
        THEN SaveMessage(inbound, phoneNumber, "out", "image", TRUE)
        ELSE SaveMessage(inbound, phoneNumber, "out", "text", FALSE)

\* did the turn call saveMessage(.., 'out', 'image', true)?
ProcessMessageSavesQr(flowType, messageText, answer, qrOk) ==
    "found" = ProcessMessageOutcome[flowType, messageText, answer, qrOk]

-----------------------------------------------------------------------------
(* ConversationService, the stateless flow step by step: what one turn does,
   in order, given what the registry, the QR encoder, the gateway and the
   store do *)

\* one step of a turn
Event(ev, kind, what, ok) == <<ev, kind, what, ok>>

\* the parts of a step
EventEv(e) == e[1]
EventKind(e) == e[2]
EventWhat(e) == e[3]
EventOk(e) == e[4]

\* the send gone wrong: a failed attempt is made once more
SendTextEventsRetry(body, sendOk, storeOk) ==
    (IF sendOk THEN <<>> ELSE <<Event("send", "text", body, sendOk)>>)
    \o <<Event("send", "text", body, sendOk),
         Event("save", "text", "out", storeOk)>>

\* await service.sendTextMessage(..); await this.saveMessage(.., 'out', 'text')
SendTextEvents(body, sendOk, storeOk) ==
    <<Event("send", "text", body, sendOk),
      Event("save", "text", "out", storeOk)>>

\* the catch gone wrong: an exception is answered like a not-found
FoundEventsNotFoundOnThrow(qrOk, sendOk, storeOk) ==
    <<Event("qrcode", "image", "toDataURL", qrOk)>>
    \o (IF qrOk
        THEN <<Event("send", "image", "found_caption", sendOk),
               Event("save", "image", "out", storeOk)>>
        ELSE <<Event("send", "text", "not_found", sendOk),
               Event("save", "text", "out", storeOk)>>)

\* the found branch of processCPF and processEmail, and the catch around it
FoundEvents(qrOk, sendOk, storeOk) ==
    <<Event("qrcode", "image", "toDataURL", qrOk)>>
    \o (IF qrOk
        THEN <<Event("send", "image", "found_caption", sendOk),
               Event("save", "image", "out", storeOk)>>
        ELSE SendTextEvents("error", sendOk, storeOk))

\* await this.azListService.validateCPF / validateEmail, and what follows
LookupEvents(answer, qrOk, sendOk, storeOk) ==
    <<Event("registry", "lookup", answer, TRUE)>>
    \o (IF ValidationFound(answer)
        THEN FoundEvents(qrOk, sendOk, storeOk)
        ELSE SendTextEvents("not_found", sendOk, storeOk))

\* processCPF gone wrong: the check digits are left to the registry
ProcessCPFEventsUnchecked(cpf, answer, qrOk, sendOk, storeOk) ==
    IF Len(cpf) # 11 \/ \E i \in 1..Len(cpf) : ~IsDigit(cpf[i])
    THEN SendTextEvents("invalid_cpf", sendOk, storeOk)
    ELSE LookupEvents(answer, qrOk, sendOk, storeOk)

\* processCPF gone wrong: only the check digits decide
ProcessCPFEventsChecksumOnly(cpf, answer, qrOk, sendOk, storeOk) ==
    IF Len(cpf) # 11 \/ \E i \in 1..Len(cpf) : ~IsDigit(cpf[i])
    THEN SendTextEvents("invalid_cpf", sendOk, storeOk)
    ELSE IF \/ CalculateCpfDigit(cpf, 9) # DigitValue(cpf[10])
            \/ CalculateCpfDigit(cpf, 10) # DigitValue(cpf[11])
    THEN SendTextEvents("invalid_cpf", sendOk, storeOk)
    ELSE LookupEvents(answer, qrOk, sendOk, storeOk)

\* processCPF
ProcessCPFEvents(cpf, answer, qrOk, sendOk, storeOk) ==
    IF Len(cpf) # 11 \/ \E i \in 1..Len(cpf) : ~IsDigit(cpf[i])
    THEN SendTextEvents("invalid_cpf", sendOk, storeOk)
    ELSE IF \A i \in 1..11 : cpf[i] = cpf[1]
    THEN SendTextEvents("invalid_cpf", sendOk, storeOk)
    ELSE IF ~IsValidCpf(cpf)
    THEN SendTextEvents("invalid_cpf", sendOk, storeOk)
    ELSE LookupEvents(answer, qrOk, sendOk, storeOk)

\* processCPFFlow gone wrong: ten digits are no candidate
ProcessCPFFlowEventsElevenOnly(messageText, answer, qrOk, sendOk, storeOk) ==
    LET numbersOnly == CleanCpf(messageText)
    IN  IF Len(numbersOnly) = 0
        THEN SendTextEvents("initial_prompt", sendOk, storeOk)
        ELSE IF Len(numbersOnly) = 11
        THEN ProcessCPFEvents(numbersOnly, answer, qrOk, sendOk, storeOk)
        ELSE SendTextEvents("invalid_format", sendOk, storeOk)

\* processCPFFlow gone wrong: the zero is put after the ten digits
ProcessCPFFlowEventsPadsRight(messageText, answer, qrOk, sendOk, storeOk) ==
    LET numbersOnly == CleanCpf(messageText)
    IN  IF Len(numbersOnly) = 0
        THEN SendTextEvents("initial_prompt", sendOk, storeOk)
        ELSE IF Len(numbersOnly) = 11
        THEN ProcessCPFEvents(numbersOnly, answer, qrOk, sendOk, storeOk)
        ELSE IF Len(numbersOnly) = 10
        THEN ProcessCPFEvents(numbersOnly \o <<"0">>, answer, qrOk, sendOk,
                              storeOk)
        ELSE SendTextEvents("invalid_format", sendOk, storeOk)

\* processCPFFlow
ProcessCPFFlowEvents(messageText, answer, qrOk, sendOk, storeOk) ==
    LET numbersOnly == CleanCpf(messageText)
    IN  IF Len(numbersOnly) = 0
        THEN SendTextEvents("initial_prompt", sendOk, storeOk)
        ELSE IF Len(numbersOnly) = 11
        THEN ProcessCPFEvents(numbersOnly, answer, qrOk, sendOk, storeOk)
        ELSE IF Len(numbersOnly) = 10
        THEN ProcessCPFEvents(<<"0">> \o numbersOnly, answer, qrOk, sendOk,
                              storeOk)
        ELSE SendTextEvents("invalid_format", sendOk, storeOk)

\* processEmailFlow gone wrong: whatever holds an "@" is looked up
ProcessEmailFlowEventsAnyAt(messageText, answer, qrOk, sendOk, storeOk) ==
    LET trimmedMessage == Trim(messageText)
    IN  IF \E i \in 1..Len(trimmedMessage) : trimmedMessage[i] = "@"
        THEN LookupEvents(answer, qrOk, sendOk, storeOk)
        ELSE SendTextEvents("initial_prompt", sendOk, storeOk)

\* processEmailFlow, with processEmail
ProcessEmailFlowEvents(messageText, answer, qrOk, sendOk, storeOk) ==
    LET trimmedMessage == Trim(messageText)
    IN  IF EmailRegexTest(trimmedMessage)
        THEN LookupEvents(answer, qrOk, sendOk, storeOk)
        ELSE IF \E i \in 1..Len(trimmedMessage) : trimmedMessage[i] = "@"
        THEN SendTextEvents("invalid_format", sendOk, storeOk)
        ELSE SendTextEvents("initial_prompt", sendOk, storeOk)

\* processMessage: the inbound record first, then the configured flow
ProcessMessageEvents(flowType, messageText, answer, qrOk, sendOk, storeOk) ==
    <<Event("save", "text", "in", storeOk)>>
    \o (IF flowType = "email"
        THEN ProcessEmailFlowEvents(messageText, answer, qrOk, sendOk, storeOk)
        ELSE ProcessCPFFlowEvents(messageText, answer, qrOk, sendOk, storeOk))

RECURSIVE EventsOf(_, _)
\* the steps of one kind, in order
EventsOf(events, ev) ==
    IF events = <<>> THEN <<>>
    ELSE (IF EventEv(Head(events)) = ev THEN <<Head(events)>> ELSE <<>>)
         \o EventsOf(Tail(events), ev)

\* the MessageProcessingResult the turn resolves with
ProcessMessageResult(flowType, events) ==
    LET send == EventsOf(events, "send")[1]
    IN  IF EventWhat(send) = "error"
        THEN [success |-> FALSE, action |-> "error", messagesSent |-> 1]
        ELSE [success |-> TRUE,
              action |-> IF EventWhat(send) = "initial_prompt" THEN "initial_prompt"
                         ELSE IF EventKind(send) = "image"
                         THEN (IF flowType = "email" THEN "email_found"
                               ELSE "cpf_found")
                         ELSE (IF flowType = "email" THEN "email_not_found"
                               ELSE "cpf_not_found"),
              messagesSent |-> 1]

RECURSIVE ApplySaves(_, _, _)
\* the message log after the saveMessage calls of a turn: a call the store
\* rejects is logged as an error and writes nothing
ApplySaves(log, phoneNumber, events) ==
    IF events = <<>> THEN log
    ELSE LET e == Head(events)
             next == IF EventEv(e) = "save" /\ EventOk(e)
                     THEN SaveMessage(log, phoneNumber, EventWhat(e), EventKind(e),
                                      EventKind(e) = "image")
                     ELSE log
         IN  ApplySaves(next, phoneNumber, Tail(events))

NoTurn ==
    [number |-> 0, flowType |-> "none", phoneNumber |-> <<>>,
     messageText |-> <<>>, answer |-> "none", qrOk |-> TRUE, sendOk |-> TRUE,
     storeOk |-> TRUE, events |-> <<>>,
     result |-> [success |-> TRUE, action |-> "none", messagesSent |-> 0]]

\* no document in the `conversations` collection
NoConversation == [state |-> "none", attempts |-> 0, cpf |-> <<>>]

\* no delivery was handled by the persisted flow yet
NoReply ==
    [number |-> 0, phoneNumber |-> <<>>, extractedCpf |-> <<>>,
     before |-> NoConversation, events |-> <<>>,
     result |-> [success |-> TRUE, action |-> "none", messagesSent |-> 0],
     seen |-> [p \in Phones |-> 0], run |-> [p \in Phones |-> 0]]

\* no importPaxList call is in progress; length is paxList.length, and
\* history: countBefore is the number of entries when the call began
NoImporter ==
    [pc |-> "idle", paxList |-> <<>>, length |-> 0, currentSequenceId |-> 0,
     imported |-> 0, duplicates |-> 0, errors |-> 0, countBefore |-> 0,
     calls |-> 0]

\* no function was called yet
NoCall == [fn |-> "none", arg |-> <<>>, out |-> FALSE, number |-> 0]

-----------------------------------------------------------------------------
(* Requests, each run to completion *)

Callers == {"c1", "c2"}

IdleCaller ==
    [pc |-> "idle", phonesWithQRCode |-> {}, nextPax |-> NoPax,
     queuePosition |-> 0, totalInQueue |-> 0, unavailableCount |-> 0,
     newSequenceId |-> 0]

NoOperator == [pc |-> "fetch", held |-> -1, recycled |-> -1]

Init ==
    /\ pax = {}
    /\ messages = <<>>
    /\ qrSaved = {}
    /\ strictQuery \in BOOLEAN
    /\ operator = NoOperator
    /\ callers = [c \in Callers |-> IdleCaller]
    /\ turn = NoTurn
    /\ call = NoCall
    /\ conversations = [p \in Phones |-> NoConversation]
    /\ reply = NoReply
    /\ importer = NoImporter

\* GET /api/pax/queue-pax reads and writes nothing
GetNextPaxInQueue ==
    /\ GetNextPaxInQueueResult(pax, messages).op = "getNextPaxInQueue"
    /\ UNCHANGED vars

GetQueueStats ==
    /\ GetQueueStatsResult(pax, messages).total = Cardinality(pax)
    /\ UNCHANGED vars

MarkPaxAsUnavailable ==
    \E paxId \in RequestIds :
        LET r == MarkPaxAsUnavailableResult(pax, paxId)
        IN  /\ MaxSequenceId(r.coll) <= MaxSeq
            /\ pax' = r.coll
            /\ UNCHANGED <<messages, qrSaved, strictQuery, operator, callers, turn, aside>>

MarkPaxAsSent ==
    \E paxId \in RequestIds :
        /\ pax' = MarkPaxAsSentResult(pax, paxId).coll
        /\ UNCHANGED <<messages, qrSaved, strictQuery, operator, callers, turn, aside>>

ImportPaxList ==
    \E paxList \in PaxLists :
        LET r == ImportPaxListResult(pax, paxList)
        IN  /\ MaxSequenceId(r.coll) <= MaxSeq
            /\ pax' = r.coll
            /\ UNCHANGED <<messages, qrSaved, strictQuery, operator, callers, turn, aside>>

\* one webhook delivery, handled to the end.  BOT_FLOW_TYPE is read at start-up
\* and the collections outlive a restart, so a delivery may be handled under
\* either flow whatever the log holds.
ProcessMessage ==
    \E flowType \in {"cpf", "email"}, phoneNumber \in Phones,
       messageText \in Texts, answer \in RegistryAnswers, qrOk \in BOOLEAN :
        /\ Len(messages) + 2 <= MaxLog
        /\ messages' = ProcessMessageLog(messages, flowType, phoneNumber,
                                         messageText, answer, qrOk)
        /\ qrSaved' = IF ProcessMessageSavesQr(flowType, messageText, answer, qrOk)
                      THEN qrSaved \cup {phoneNumber}
                      ELSE qrSaved
        /\ UNCHANGED <<pax, strictQuery, operator, callers, turn, aside>>

Next ==
    \/ GetNextPaxInQueue
    \/ GetQueueStats
    \/ MarkPaxAsUnavailable
    \/ MarkPaxAsSent
    \/ ImportPaxList
    \/ ProcessMessage

Spec == Init /\ [][Next]_vars

-----------------------------------------------------------------------------
(* Webhook deliveries, one turn each, with the steps of the turn on record *)

\* the turn gone wrong: a phone that was sent its QR code is remembered and
\* told so, whatever it writes
IntakeTurnRemembersQr ==
    \E flowType \in {"cpf", "email"}, phoneNumber \in Phones,
       messageText \in Texts, answer \in RegistryAnswers,
       qrOk \in BOOLEAN, sendOk \in BOOLEAN, storeOk \in BOOLEAN :
        \E events \in {IF \E i \in 1..Len(messages) :
                             /\ messages[i].from = phoneNumber
                             /\ messages[i].kind = "image"
                        THEN <<Event("save", "text", "in", storeOk)>>
                             \o SendTextEvents("initial_prompt", sendOk, storeOk)
                        ELSE ProcessMessageEvents(flowType, messageText, answer,
                                                  qrOk, sendOk, storeOk)} :
            /\ turn.number < MaxTurns
            /\ messages' = ApplySaves(messages, phoneNumber, events)
            /\ qrSaved' = qrSaved
            /\ turn' = [number |-> turn.number + 1, flowType |-> flowType,
                        phoneNumber |-> phoneNumber,
                        messageText |-> messageText, answer |-> answer,
                        qrOk |-> qrOk, sendOk |-> sendOk, storeOk |-> storeOk,
                        events |-> events,
                        result |-> ProcessMessageResult(flowType, events)]
            /\ UNCHANGED <<pax, strictQuery, operator, callers, aside>>

IntakeTurn ==
    \E flowType \in {"cpf", "email"}, phoneNumber \in Phones,
       messageText \in Texts, answer \in RegistryAnswers,
       qrOk \in BOOLEAN, sendOk \in BOOLEAN, storeOk \in BOOLEAN :
        \E events \in {ProcessMessageEvents(flowType, messageText, answer,
                                            qrOk, sendOk, storeOk)} :
            /\ turn.number < MaxTurns
            /\ messages' = ApplySaves(messages, phoneNumber, events)
            /\ qrSaved' = IF \E i \in 1..Len(events) :
                                 /\ EventEv(events[i]) = "save"
                                 /\ EventKind(events[i]) = "image"
                                 /\ EventOk(events[i])
                          THEN qrSaved \cup {phoneNumber}
                          ELSE qrSaved
            /\ turn' = [number |-> turn.number + 1, flowType |-> flowType,
                        phoneNumber |-> phoneNumber,
                        messageText |-> messageText, answer |-> answer,
                        qrOk |-> qrOk, sendOk |-> sendOk, storeOk |-> storeOk,
                        events |-> events,
                        result |-> ProcessMessageResult(flowType, events)]
            /\ UNCHANGED <<pax, strictQuery, operator, callers, aside>>

NextIntake == IntakeTurn

SpecIntake == Init /\ [][NextIntake]_vars

-----------------------------------------------------------------------------
(* isValidCpf called on strings of eleven digits *)

\* the first nine digits of the strings tried: of a valid tax-ID, of a
\* tax-ID with a leading zero and a check digit 0, and of repeated digits
CpfPrefixes ==
    {<<"5", "2", "9", "9", "8", "2", "2", "4", "7">>,
     <<"0", "1", "2", "3", "4", "5", "6", "7", "8">>,
     <<"1", "1", "1", "1", "1", "1", "1", "1", "1">>,
     <<"0", "0", "0", "0", "0", "0", "0", "0", "0">>,
     <<"9", "9", "9", "9", "9", "9", "9", "9", "9">>}

\* each prefix with every pair of check digits
CpfInputs == {p \o <<a, b>> : p \in CpfPrefixes, a \in Digits, b \in Digits}

IsValidCpfCall ==
    \E cpf \in CpfInputs :
        /\ call.number < MaxCalls
        /\ call' = [fn |-> "isValidCpf", arg |-> cpf, out |-> IsValidCpf(cpf),
                    number |-> call.number + 1]
        /\ UNCHANGED <<store, operator, callers, turn, conversations,
                       reply, importer>>

NextCpf == IsValidCpfCall

SpecCpf == Init /\ [][NextCpf]_vars

-----------------------------------------------------------------------------
(* The lookup key codec: the payload of the QR code and its decoding.  A
   string is a sequence of characters, a buffer a sequence of bytes. *)

\* the characters of a lookup key: a letter, a digit, the two characters
\* JSON escapes, and a letter outside ASCII ("e_acute" stands for U+00E9)
KeyChars == {"a", "1", "\"", "\\", "e_acute"}

Keys == UNION {[1..n -> KeyChars] : n \in 1..MaxKey}

\* the code of an ASCII character
AsciiCode(c) ==
    CASE c = " " -> 32 [] c = "\"" -> 34 [] c = "/" -> 47 [] c = "1" -> 49
      [] c = ":" -> 58 [] c = "K" -> 75 [] c = "S" -> 83 [] c = "\\" -> 92
      [] c = "a" -> 97 [] c = "c" -> 99 [] c = "e" -> 101 [] c = "h" -> 104
      [] c = "r" -> 114 [] c = "y" -> 121 [] c = "{" -> 123 [] c = "}" -> 125

AsciiChars ==
    {" ", "\"", "/", "1", ":", "K", "S", "\\", "a", "c", "e", "h", "r", "y",
     "{", "}"}

RECURSIVE Utf8Encode(_)
\* Buffer.from(string): the UTF-8 bytes
Utf8Encode(str) ==
    IF str = <<>> THEN <<>>
    ELSE (IF Head(str) = "e_acute" THEN <<195, 169>>
          ELSE <<AsciiCode(Head(str))>>)
         \o Utf8Encode(Tail(str))

RECURSIVE Utf8Decode(_)
\* buffer.toString('utf-8'); a byte sequence that is no UTF-8 becomes U+FFFD
Utf8Decode(bytes) ==
    IF bytes = <<>> THEN <<>>
    ELSE IF Len(bytes) >= 2 /\ bytes[1] = 195 /\ bytes[2] = 169
    THEN <<"e_acute">> \o Utf8Decode(Tail(Tail(bytes)))
    ELSE IF \E c \in AsciiChars : AsciiCode(c) = Head(bytes)
    THEN <<CHOOSE c \in AsciiChars : AsciiCode(c) = Head(bytes)>>
         \o Utf8Decode(Tail(bytes))
    ELSE <<"U+FFFD">> \o Utf8Decode(Tail(bytes))

Base64Alphabet ==
    <<"A", "B", "C", "D", "E", "F", "G", "H", "I", "J", "K", "L", "M", "N", "O",
      "P", "Q", "R", "S", "T", "U", "V", "W", "X", "Y", "Z", "a", "b", "c", "d",
      "e", "f", "g", "h", "i", "j", "k", "l", "m", "n", "o", "p", "q", "r", "s",
      "t", "u", "v", "w", "x", "y", "z", "0", "1", "2", "3", "4", "5", "6", "7",
      "8", "9", "+", "/">>

RECURSIVE Base64Encode(_)
\* buffer.toString('base64'): three bytes make four characters, and "="
\* fills the last group
Base64Encode(bytes) ==
    IF bytes = <<>> THEN <<>>
    ELSE IF Len(bytes) = 1
    THEN LET n == bytes[1] * 16
         IN  <<Base64Alphabet[(n \div 64) + 1], Base64Alphabet[(n % 64) + 1],
               "=", "=">>
    ELSE IF Len(bytes) = 2
    THEN LET n == (bytes[1] * 256 + bytes[2]) * 4
         IN  <<Base64Alphabet[(n \div 4096) + 1],
               Base64Alphabet[((n \div 64) % 64) + 1],
               Base64Alphabet[(n % 64) + 1], "=">>
    ELSE LET n == bytes[1] * 65536 + bytes[2] * 256 + bytes[3]
         IN  <<Base64Alphabet[(n \div 262144) + 1],
               Base64Alphabet[((n \div 4096) % 64) + 1],
               Base64Alphabet[((n \div 64) % 64) + 1],
               Base64Alphabet[(n % 64) + 1]>>
             \o Base64Encode(SubSeq(bytes, 4, Len(bytes)))

\* the six bits a base64 character stands for
Base64Value(c) == (CHOOSE i \in 1..64 : Base64Alphabet[i] = c) - 1

RECURSIVE Base64Decode(_)
\* Buffer.from(text, 'base64') on groups of four characters
Base64Decode(text) ==
    IF Len(text) < 4 THEN <<>>
    ELSE IF text[3] = "="
    THEN LET n == Base64Value(text[1]) * 64 + Base64Value(text[2])
         IN  <<n \div 16>>
    ELSE IF text[4] = "="
    THEN LET n == Base64Value(text[1]) * 4096 + Base64Value(text[2]) * 64
                  + Base64Value(text[3])
         IN  <<n \div 1024, (n \div 4) % 256>>
    ELSE LET n == Base64Value(text[1]) * 262144 + Base64Value(text[2]) * 4096
                  + Base64Value(text[3]) * 64 + Base64Value(text[4])
         IN  <<n \div 65536, (n \div 256) % 256, n % 256>>
             \o Base64Decode(SubSeq(text, 5, Len(text)))

RECURSIVE JsonEscape(_)
\* the characters of a string as JSON.stringify writes them between quotes
JsonEscape(str) ==
    IF str = <<>> THEN <<>>
    ELSE (IF Head(str) \in {"\"", "\\"} THEN <<"\\", Head(str)>>
          ELSE <<Head(str)>>)
         \o JsonEscape(Tail(str))

\* the text {"SearchKey" up to the colon
SearchKeyName == <<"\"", "S", "e", "a", "r", "c", "h", "K", "e", "y", "\"">>

\* JSON.stringify({SearchKey: searchKey})
JsonStringify(searchKey) ==
    <<"{">> \o SearchKeyName \o <<":", "\"">> \o JsonEscape(searchKey)
    \o <<"\"", "}">>

\* QRCodeService.generateQRCode: the text handed to QRCode.toDataURL
GenerateQRCodePayload(searchKey) ==
    Base64Encode(Utf8Encode(JsonStringify(searchKey)))

\* processCPF and processEmail: the template `{"SearchKey": "${searchKey}"}`
\* in base64
InlinePayload(searchKey) ==
    Base64Encode(Utf8Encode(<<"{">> \o SearchKeyName \o <<":", " ", "\"">>
                            \o searchKey \o <<"\"", "}">>))

RECURSIVE JsonSkipSpace(_, _)
\* the first position from i on that holds no space
JsonSkipSpace(text, i) ==
    IF i <= Len(text) /\ text[i] = " " THEN JsonSkipSpace(text, i + 1) ELSE i

RECURSIVE JsonScanString(_, _, _)
\* JSON.parse inside a string, from position i on: the value read so far is
\* acc.  The escapes that start with a letter or a digit do not come up:
\* of the characters of the model only \", \\ and \/ are escapes
JsonScanString(text, i, acc) ==
    IF i > Len(text) THEN [ok |-> FALSE, value |-> <<>>, next |-> i]
    ELSE IF text[i] = "\"" THEN [ok |-> TRUE, value |-> acc, next |-> i + 1]
    ELSE IF text[i] = "\\"
    THEN (IF i + 1 <= Len(text) /\ text[i + 1] \in {"\"", "\\", "/"}
          THEN JsonScanString(text, i + 2, Append(acc, text[i + 1]))
          ELSE [ok |-> FALSE, value |-> <<>>, next |-> i])
    ELSE JsonScanString(text, i + 1, Append(acc, text[i]))

\* JSON.parse of a string literal that starts at position i
JsonParseString(text, i) ==
    IF i <= Len(text) /\ text[i] = "\""
    THEN JsonScanString(text, i + 1, <<>>)
    ELSE [ok |-> FALSE, value |-> <<>>, next |-> i]

\* what decodeQRData returns when it returns null
NullData == [isNull |-> TRUE, SearchKey |-> <<>>]

\* JSON.parse of an object with one member whose value is a string, then
\* the test typeof data.SearchKey === 'string'; a SyntaxError is caught
JsonParseQRCodeData(text) ==
    LET open == JsonSkipSpace(text, 1)
        name == JsonParseString(text, JsonSkipSpace(text, open + 1))
        colon == JsonSkipSpace(text, name.next)
        value == JsonParseString(text, JsonSkipSpace(text, colon + 1))
        close == JsonSkipSpace(text, value.next)
    IN  IF /\ open <= Len(text) /\ text[open] = "{"
           /\ name.ok
           /\ colon <= Len(text) /\ text[colon] = ":"
           /\ value.ok
           /\ close <= Len(text) /\ text[close] = "}"
           /\ JsonSkipSpace(text, close + 1) = Len(text) + 1
           /\ name.value = <<"S", "e", "a", "r", "c", "h", "K", "e", "y">>
        THEN [isNull |-> FALSE, SearchKey |-> value.value]
        ELSE NullData

\* QRCodeService.decodeQRData
DecodeQRData(base64Data) ==
    JsonParseQRCodeData(Utf8Decode(Base64Decode(base64Data)))

\* the payload generateQRCode makes for a key, decoded
DecodeGenerated ==
    \E searchKey \in Keys :
        \E payload \in {GenerateQRCodePayload(searchKey)} :
            /\ call.number < MaxCalls
            /\ call' = [fn |-> "generateQRCode", arg |-> searchKey,
                        out |-> [payload |-> payload,
                                 data |-> DecodeQRData(payload)],
                        number |-> call.number + 1]
            /\ UNCHANGED <<store, operator, callers, turn, conversations,
                           reply, importer>>

\* the payload the stateless flow makes for a key, decoded
DecodeInline ==
    \E searchKey \in Keys :
        \E payload \in {InlinePayload(searchKey)} :
            /\ call.number < MaxCalls
            /\ call' = [fn |-> "processCPF", arg |-> searchKey,
                        out |-> [payload |-> payload,
                                 data |-> DecodeQRData(payload)],
                        number |-> call.number + 1]
            /\ UNCHANGED <<store, operator, callers, turn, conversations,
                           reply, importer>>

NextCodec == DecodeGenerated \/ DecodeInline

SpecCodec == Init /\ [][NextCodec]_vars

-----------------------------------------------------------------------------
(* ConversationService, the persisted flow: one document per phone in the
   `conversations` collection carries the state of the dialogue from one
   webhook delivery to the next.  The store is taken to accept every read and
   every write of a delivery; a send the gateway refuses comes back with
   success false, and the QR encoder may throw. *)

UpperCaseLetters ==
    <<"A", "B", "C", "D", "E", "F", "G", "H", "I", "J", "K", "L", "M",
      "N", "O", "P", "Q", "R", "S", "T", "U", "V", "W", "X", "Y", "Z">>
LowerCaseLetters ==
    <<"a", "b", "c", "d", "e", "f", "g", "h", "i", "j", "k", "l", "m",
      "n", "o", "p", "q", "r", "s", "t", "u", "v", "w", "x", "y", "z">>

\* s.toLowerCase()
ToLowerCase(s) ==
    [i \in 1..Len(s) |->
        IF \E k \in 1..26 : UpperCaseLetters[k] = s[i]
        THEN LowerCaseLetters[CHOOSE k \in 1..26 : UpperCaseLetters[k] = s[i]]
        ELSE s[i]]

\* \w of a regular expression
IsWordChar(c) ==
    \/ c \in Digits
    \/ c = "_"
    \/ \E k \in 1..26 : c = UpperCaseLetters[k] \/ c = LowerCaseLetters[k]

\* \b of a regular expression, between s[i] and s[i + 1]
IsWordBoundary(s, i) ==
    (i >= 1 /\ IsWordChar(s[i])) # (i < Len(s) /\ IsWordChar(s[i + 1]))

\* the three cpfPatterns, one class per character: d is \d, s is \s, the
\* others stand for themselves
CpfPatterns ==
    <<<<"d", "d", "d", "d", "d", "d", "d", "d", "d", "d", "d">>,
      <<"d", "d", "d", ".", "d", "d", "d", ".", "d", "d", "d", "-", "d", "d">>,
      <<"d", "d", "d", "s", "d", "d", "d", "s", "d", "d", "d", "s", "d", "d">>>>

\* the pattern, between two \b, matches s from position start on
PatternMatchesAt(s, pattern, start) ==
    /\ start + Len(pattern) - 1 <= Len(s)
    /\ IsWordBoundary(s, start - 1)
    /\ IsWordBoundary(s, start + Len(pattern) - 1)
    /\ \A j \in 1..Len(pattern) :
          LET c == s[start + j - 1]
          IN  CASE pattern[j] = "d" -> IsDigit(c)
                [] pattern[j] = "s" -> c = " "
                [] OTHER -> c = pattern[j]

\* cleanMessage.match(pattern): the leftmost match, <<>> for none
PatternMatch(s, pattern) ==
    LET starts == {i \in 1..Len(s) : PatternMatchesAt(s, pattern, i)}
    IN  IF starts = {} THEN <<>>
        ELSE LET first == CHOOSE i \in starts : \A j \in starts : i <= j
             IN  SubSeq(s, first, first + Len(pattern) - 1)

RECURSIVE ExtractCpfLoop(_, _)
\* for (const pattern of cpfPatterns), from the k-th pattern on
ExtractCpfLoop(cleanMessage, k) ==
    IF k > Len(CpfPatterns) THEN <<>>
    ELSE LET match == PatternMatch(cleanMessage, CpfPatterns[k])
         IN  IF match # <<>> /\ IsValidCpf(CleanCpf(match))
             THEN CleanCpf(match)
             ELSE ExtractCpfLoop(cleanMessage, k + 1)

\* extractCpfFromMessage: <<>> stands for null
ExtractCpfFromMessage(message) ==
    ExtractCpfLoop(ToLowerCase(Trim(message)), 1)

\* the inbound texts of the persisted flow
TextCpfInWords ==
    <<"C", "P", "F", " ", "0", "1", "2", ".", "3", "4", "5", ".", "6", "7",
      "8", "-", "9", "0", " ">>
TextCpfGlued ==
    <<"c", "p", "f", "5", "2", "9", "9", "8", "2", "2", "4", "7", "2", "5">>
ConversationTexts ==
    {TextOla, TextCpf, TextCpfBadCheck, TextCpfInWords, TextCpfGlued}

\* what the registry answers in the persisted flow
ConversationAnswers == {"found", "notFound"}

\* the phones that write in: a document is read and written by its
\* phoneNumber alone
ConversationPhones == {PhoneA}

\* what extractCpfFromMessage returns for each text of the model
ExtractedCpf ==
    [messageText \in ConversationTexts |-> ExtractCpfFromMessage(messageText)]

\* ConversationSchema.methods.updateState
UpdateState(conversation, newState) == [conversation EXCEPT !.state = newState]

\* ConversationSchema.methods.incrementAttempts
IncrementAttempts(conversation) ==
    [conversation EXCEPT !.attempts = @ + 1]

\* ConversationSchema.methods.reset
Reset(conversation) ==
    [conversation EXCEPT !.state = "initial", !.attempts = 0, !.cpf = <<>>]

\* getOrCreateConversation: the document of the phone, created if there is none
GetOrCreateConversation(conversation) ==
    IF conversation = NoConversation
    THEN [state |-> "initial", attempts |-> 0, cpf |-> <<>>]
    ELSE conversation

\* const response = await this.zapiService.send...; if (response.success)
\* await this.saveMessage(.., 'out', kind)
SendThenSave(kind, body, sendOk) ==
    <<Event("send", kind, body, sendOk)>>
    \o (IF sendOk THEN <<Event("save", kind, "out", TRUE)>> ELSE <<>>)

\* handleError: conversation is the document as it was saved last
HandleError(conversation, sendOk) ==
    [conv |-> conversation,
     events |-> SendThenSave("text", "error", sendOk),
     result |-> [success |-> FALSE, action |-> "error",
                 messagesSent |-> IF sendOk THEN 1 ELSE 0]]

\* handleCpfFound, and the catch around it
HandleCpfFound(conversation, qrOk, sendOk) ==
    IF qrOk
    THEN [conv |-> UpdateState(conversation, "resolved_found"),
          events |-> <<Event("qrcode", "image", "toDataURL", TRUE)>>
                     \o SendThenSave("text", "found_message", sendOk)
                     \o SendThenSave("image", "found_caption", sendOk),
          result |-> [success |-> TRUE, action |-> "cpf_found",
                      messagesSent |-> 2]]
    ELSE [HandleError(conversation, sendOk) EXCEPT
             !.events = <<Event("qrcode", "image", "toDataURL", FALSE)>> \o @]

\* handleCpfNotFound
HandleCpfNotFound(conversation, sendOk) ==
    [conv |-> UpdateState(conversation, "resolved_not_found"),
     events |-> SendThenSave("text", "not_found", sendOk),
     result |-> [success |-> TRUE, action |-> "cpf_not_found",
                 messagesSent |-> 1]]

\* validateAndProcessCpf
ValidateAndProcessCpf(conversation, answer, qrOk, sendOk) ==
    LET next == IF ValidationFound(answer)
                THEN HandleCpfFound(conversation, qrOk, sendOk)
                ELSE HandleCpfNotFound(conversation, sendOk)
    IN  [next EXCEPT
            !.events = <<Event("registry", "lookup", answer, TRUE)>> \o @]

\* handleInitialMessage
HandleInitialMessage(conversation, extractedCpf, answer, qrOk, sendOk) ==
    IF extractedCpf # <<>> /\ IsValidCpf(extractedCpf)
    THEN ValidateAndProcessCpf(
             UpdateState([conversation EXCEPT !.cpf = extractedCpf],
                         "awaiting_cpf"),
             answer, qrOk, sendOk)
    ELSE IF sendOk
    THEN [conv |-> UpdateState(conversation, "awaiting_cpf"),
          events |-> SendThenSave("text", "initial_prompt", TRUE),
          result |-> [success |-> TRUE, action |-> "initial_prompt",
                      messagesSent |-> 1]]
    ELSE [HandleError(conversation, sendOk) EXCEPT
             !.events = <<Event("send", "text", "initial_prompt", FALSE)>> \o @]

\* handleCpfMessage gone wrong: the conversation is closed on the second
\* message that holds no valid CPF
HandleCpfMessageLimitTwo(conversation, extractedCpf, answer, qrOk, sendOk) ==
    IF extractedCpf = <<>> \/ ~IsValidCpf(extractedCpf)
    THEN LET counted == IncrementAttempts(conversation)
         IN  IF counted.attempts >= 2
             THEN [conv |-> UpdateState(counted, "resolved_not_found"),
                   events |-> SendThenSave("text", "error", sendOk),
                   result |-> [success |-> TRUE, action |-> "error",
                               messagesSent |-> 1]]
             ELSE [conv |-> counted,
                   events |-> SendThenSave("text", "invalid_cpf", sendOk),
                   result |-> [success |-> TRUE, action |-> "cpf_validation",
                               messagesSent |-> 1]]
    ELSE ValidateAndProcessCpf([conversation EXCEPT !.cpf = extractedCpf],
                               answer, qrOk, sendOk)

\* handleCpfMessage gone wrong: the attempts are counted and never compared
\* with a limit, so the conversation keeps waiting for a CPF
HandleCpfMessageNoLimit(conversation, extractedCpf, answer, qrOk, sendOk) ==
    IF extractedCpf = <<>> \/ ~IsValidCpf(extractedCpf)
    THEN [conv |-> IncrementAttempts(conversation),
          events |-> SendThenSave("text", "invalid_cpf", sendOk),
          result |-> [success |-> TRUE, action |-> "cpf_validation",
                      messagesSent |-> 1]]
    ELSE ValidateAndProcessCpf([conversation EXCEPT !.cpf = extractedCpf],
                               answer, qrOk, sendOk)

\* handleCpfMessage: extractCpfFromMessage returns a valid CPF or null, so
\* the text of the validation prompt is MESSAGES.INVALID_CPF
HandleCpfMessage(conversation, extractedCpf, answer, qrOk, sendOk) ==
    IF extractedCpf = <<>> \/ ~IsValidCpf(extractedCpf)
    THEN LET counted == IncrementAttempts(conversation)
         IN  IF counted.attempts >= 3
             THEN [conv |-> UpdateState(counted, "resolved_not_found"),
                   events |-> SendThenSave("text", "error", sendOk),
                   result |-> [success |-> TRUE, action |-> "error",
                               messagesSent |-> 1]]
             ELSE [conv |-> counted,
                   events |-> SendThenSave("text", "invalid_cpf", sendOk),
                   result |-> [success |-> TRUE, action |-> "cpf_validation",
                               messagesSent |-> 1]]
    ELSE ValidateAndProcessCpf([conversation EXCEPT !.cpf = extractedCpf],
                               answer, qrOk, sendOk)

\* handleResolvedState gone wrong: a valid CPF is looked up again even when
\* it is the one the conversation was resolved with
HandleResolvedStateAnyCpf(conversation, extractedCpf, answer, qrOk, sendOk) ==
    IF extractedCpf # <<>> /\ IsValidCpf(extractedCpf)
    THEN ValidateAndProcessCpf(
             UpdateState([Reset(conversation) EXCEPT !.cpf = extractedCpf],
                         "awaiting_cpf"),
             answer, qrOk, sendOk)
    ELSE [conv |-> conversation,
          events |-> SendThenSave("text", "already_consulted", sendOk),
          result |-> [success |-> TRUE, action |-> "cpf_found",
                      messagesSent |-> 1]]

\* handleResolvedState
HandleResolvedState(conversation, extractedCpf, answer, qrOk, sendOk) ==
    IF /\ extractedCpf # <<>>
       /\ IsValidCpf(extractedCpf)
       /\ extractedCpf # conversation.cpf
    THEN ValidateAndProcessCpf(
             UpdateState([Reset(conversation) EXCEPT !.cpf = extractedCpf],
                         "awaiting_cpf"),
             answer, qrOk, sendOk)
    ELSE IF conversation.state = "resolved_found"
    THEN [conv |-> conversation,
          events |-> SendThenSave("text", "already_consulted", sendOk),
          result |-> [success |-> TRUE, action |-> "cpf_found",
                      messagesSent |-> 1]]
    ELSE [conv |-> conversation,
          events |-> SendThenSave("text", "not_found", sendOk),
          result |-> [success |-> TRUE, action |-> "cpf_not_found",
                      messagesSent |-> 1]]

\* processMessage of the persisted flow: the inbound record, the document of
\* the phone, then the handler of its state
ConversationProcessMessage(stored, extractedCpf, answer, qrOk, sendOk) ==
    LET conversation == GetOrCreateConversation(stored)
        handled ==
            CASE conversation.state = "initial" ->
                     HandleInitialMessage(conversation, extractedCpf, answer,
                                          qrOk, sendOk)
              [] conversation.state = "awaiting_cpf" ->
                     HandleCpfMessage(conversation, extractedCpf, answer,
                                      qrOk, sendOk)
              [] conversation.state \in {"resolved_found",
                                         "resolved_not_found"} ->
                     HandleResolvedState(conversation, extractedCpf, answer,
                                         qrOk, sendOk)
              [] OTHER -> HandleError(conversation, sendOk)
    IN  [handled EXCEPT !.events = <<Event("save", "text", "in", TRUE)>> \o @]

RECURSIVE ApplyConversationSaves(_, _, _)
\* the message log after the saveMessage calls of a delivery; the persisted
\* flow passes the caption of an image, never qrcodeMessage
ApplyConversationSaves(log, phoneNumber, events) ==
    IF events = <<>> THEN log
    ELSE LET e == Head(events)
             next == IF EventEv(e) = "save"
                     THEN SaveMessage(log, phoneNumber, EventWhat(e),
                                      EventKind(e), FALSE)
                     ELSE log
         IN  ApplyConversationSaves(next, phoneNumber, Tail(events))

\* history: the invalid messages a conversation has handled since it came to
\* await a CPF, after a delivery that took it from state `before` to `after`
CountInvalid(count, before, after, extractedCpf, broken) ==
    IF before # "awaiting_cpf" \/ after # "awaiting_cpf" THEN 0
    ELSE IF extractedCpf = <<>> THEN count + 1
    ELSE IF broken THEN 0
    ELSE count

\* a webhook delivery handled by the persisted flow
ConversationDelivery ==
    \E phoneNumber \in ConversationPhones, messageText \in ConversationTexts,
       answer \in ConversationAnswers, qrOk \in BOOLEAN, sendOk \in BOOLEAN :
        \E out \in {ConversationProcessMessage(conversations[phoneNumber],
                                               ExtractedCpf[messageText],
                                               answer, qrOk, sendOk)} :
            LET before == GetOrCreateConversation(conversations[phoneNumber])
                extractedCpf == ExtractedCpf[messageText]
            IN  /\ reply.number < MaxDeliveries
                /\ conversations' =
                       [conversations EXCEPT ![phoneNumber] = out.conv]
                /\ messages' =
                       ApplyConversationSaves(messages, phoneNumber, out.events)
                /\ reply' =
                       [number |-> reply.number + 1,
                        phoneNumber |-> phoneNumber,
                        extractedCpf |-> extractedCpf,
                        before |-> before,
                        events |-> out.events,
                        result |-> out.result,
                        seen |-> [reply.seen EXCEPT ![phoneNumber] =
                                     CountInvalid(@, before.state,
                                                  out.conv.state,
                                                  extractedCpf, FALSE)],
                        run |-> [reply.run EXCEPT ![phoneNumber] =
                                    CountInvalid(@, before.state,
                                                 out.conv.state,
                                                 extractedCpf, TRUE)]]
                /\ UNCHANGED <<pax, qrSaved, strictQuery, operator, callers,
                               turn, call, importer>>

\* resetConversation, called by an administrator
ResetConversation ==
    \E phoneNumber \in ConversationPhones :
        /\ conversations[phoneNumber] # NoConversation
        /\ conversations' =
               [conversations EXCEPT ![phoneNumber] = Reset(@)]
        /\ reply' = [reply EXCEPT !.seen[phoneNumber] = 0,
                                  !.run[phoneNumber] = 0]
        /\ UNCHANGED <<store, operator, callers, turn, call, importer>>

NextConversation ==
    \/ ConversationDelivery
    \/ ResetConversation

SpecConversation == Init /\ [][NextConversation]_vars

-----------------------------------------------------------------------------
(* An operator working the queue: fetch the next entry, then mark it sent or
   unavailable, again and again.  Imports and webhook deliveries come in
   between. *)

OperatorGetNext ==
    /\ operator.pc = "fetch"
    /\ LET r == GetNextPaxInQueueResult(pax, messages)
       IN  operator' = IF r.success
                       THEN [operator EXCEPT !.pc = "mark", !.held = r.pax.id]
                       ELSE operator
    /\ UNCHANGED <<store, callers, turn, aside>>

OperatorMarkSent ==
    /\ operator.pc = "mark"
    /\ pax' = MarkPaxAsSentResult(pax, operator.held).coll
    /\ operator' = NoOperator
    /\ UNCHANGED <<messages, qrSaved, strictQuery, callers, turn, aside>>

OperatorMarkUnavailable ==
    /\ operator.pc = "mark"
    /\ LET r == MarkPaxAsUnavailableResult(pax, operator.held)
       IN  /\ MaxSequenceId(r.coll) <= MaxSeq
           /\ pax' = r.coll
           /\ operator' = [NoOperator EXCEPT
                              !.recycled = IF r.result.success
                                           THEN operator.held ELSE -1]
    /\ UNCHANGED <<messages, qrSaved, strictQuery, callers, turn, aside>>

OperatorStep ==
    \/ OperatorGetNext
    \/ OperatorMarkSent
    \/ OperatorMarkUnavailable

\* a webhook delivery while the operator works the queue
OperatorProcessMessage ==
    /\ Len(messages) + 2 <= MaxOperatorLog
    /\ ProcessMessage

NextOperator ==
    \/ OperatorGetNext
    \/ OperatorMarkSent
    \/ OperatorMarkUnavailable
    \/ ImportPaxList
    \/ OperatorProcessMessage

\* the operator keeps going: a fetch or a mark that can be done is done
SpecOperator == Init /\ [][NextOperator]_vars /\ WF_vars(OperatorStep)

-----------------------------------------------------------------------------
(* Requests that overlap: every await of getNextPaxInQueue and of
   markPaxAsUnavailable is a step of its own, and the steps of two callers
   interleave.  A caller marks the entry it was given. *)

\* const phonesWithQRCode = await Message.distinct(...)
GetNextDistinct(c) ==
    /\ callers[c].pc = "idle"
    /\ callers' = [callers EXCEPT ![c] =
           [IdleCaller EXCEPT !.pc = "findOne",
                              !.phonesWithQRCode = PhonesWithQRCode(messages)]]
    /\ UNCHANGED <<store, operator, turn, aside>>

\* the selection gone wrong: an entry another caller holds is passed over
GetNextFindOneSkipsHeld(c) ==
    /\ callers[c].pc = "findOne"
    /\ LET held == {callers[o].nextPax.id : o \in Callers \ {c}}
           nextPax == FindNextPax({d \in pax : d.id \notin held},
                                  callers[c].phonesWithQRCode)
       IN  callers' = [callers EXCEPT ![c] =
               [@ EXCEPT !.pc = IF nextPax = NoPax THEN "empty" ELSE "position",
                         !.nextPax = nextPax]]
    /\ UNCHANGED <<store, operator, turn, aside>>

\* const nextPax = await Pax.findOne(...).sort(...).lean()
GetNextFindOne(c) ==
    /\ callers[c].pc = "findOne"
    /\ LET nextPax == FindNextPax(pax, callers[c].phonesWithQRCode)
       IN  callers' = [callers EXCEPT ![c] =
               [@ EXCEPT !.pc = IF nextPax = NoPax THEN "empty" ELSE "position",
                         !.nextPax = nextPax]]
    /\ UNCHANGED <<store, operator, turn, aside>>

\* if (!nextPax): the two counts for the message, and the failure is returned
GetNextEmpty(c) ==
    /\ callers[c].pc = "empty"
    /\ callers' = [callers EXCEPT ![c] = IdleCaller]
    /\ UNCHANGED <<store, operator, turn, aside>>

\* const queuePosition = await Pax.countDocuments(...)
GetNextCountPosition(c) ==
    /\ callers[c].pc = "position"
    /\ callers' = [callers EXCEPT ![c] =
           [@ EXCEPT !.pc = "total",
                     !.queuePosition = Cardinality(
                         {d \in InQueue(pax, callers[c].phonesWithQRCode) :
                              d.sequenceId <= callers[c].nextPax.sequenceId})]]
    /\ UNCHANGED <<store, operator, turn, aside>>

\* const totalInQueue = await Pax.countDocuments(...)
GetNextCountTotal(c) ==
    /\ callers[c].pc = "total"
    /\ callers' = [callers EXCEPT ![c] =
           [@ EXCEPT !.pc = "unavailable",
                     !.totalInQueue = Cardinality(
                         InQueue(pax, callers[c].phonesWithQRCode))]]
    /\ UNCHANGED <<store, operator, turn, aside>>

\* const unavailableCount = await Pax.countDocuments(...), and the result is
\* returned to the caller
GetNextCountUnavailable(c) ==
    /\ callers[c].pc = "unavailable"
    /\ callers' = [callers EXCEPT ![c] =
           [@ EXCEPT !.pc = "got",
                     !.unavailableCount = Cardinality(
                         {d \in InQueue(pax, callers[c].phonesWithQRCode) :
                              d.unavailable})]]
    /\ UNCHANGED <<store, operator, turn, aside>>

\* markPaxAsSent on the entry the caller was given: one await
CallerMarkSent(c) ==
    /\ callers[c].pc = "got"
    /\ pax' = MarkPaxAsSentResult(pax, callers[c].nextPax.id).coll
    /\ callers' = [callers EXCEPT ![c] = IdleCaller]
    /\ UNCHANGED <<messages, qrSaved, strictQuery, operator, turn, aside>>

\* markPaxAsUnavailable: const currentPax = await Pax.findById(paxId)
CallerMarkUnavailableFindById(c) ==
    /\ callers[c].pc = "got"
    /\ callers' = [callers EXCEPT ![c] =
           IF PaxFindById(pax, callers[c].nextPax.id) = NoPax
           THEN IdleCaller
           ELSE [@ EXCEPT !.pc = "findMax"]]
    /\ UNCHANGED <<store, operator, turn, aside>>

\* const maxSequencePax = await Pax.findOne(...).sort({sequenceId: -1})
CallerMarkUnavailableFindMax(c) ==
    /\ callers[c].pc = "findMax"
    /\ MaxSequenceId(pax) + 1 <= MaxSeq
    /\ callers' = [callers EXCEPT ![c] =
           [@ EXCEPT !.pc = "update",
                     !.newSequenceId = MaxSequenceId(pax) + 1]]
    /\ UNCHANGED <<store, operator, turn, aside>>

\* const updatedPax = await Pax.findByIdAndUpdate(...), and the result is
\* returned
CallerMarkUnavailableUpdate(c) ==
    /\ callers[c].pc = "update"
    /\ pax' = PaxFindByIdAndUpdate(pax, callers[c].nextPax.id,
                  [unavailable |-> TRUE,
                   sequenceId |-> callers[c].newSequenceId]).coll
    /\ callers' = [callers EXCEPT ![c] = IdleCaller]
    /\ UNCHANGED <<messages, qrSaved, strictQuery, operator, turn, aside>>

NextConc ==
    \/ \E c \in Callers : GetNextDistinct(c)
    \/ \E c \in Callers : GetNextFindOne(c)
    \/ \E c \in Callers : GetNextEmpty(c)
    \/ \E c \in Callers : GetNextCountPosition(c)
    \/ \E c \in Callers : GetNextCountTotal(c)
    \/ \E c \in Callers : GetNextCountUnavailable(c)
    \/ \E c \in Callers : CallerMarkSent(c)
    \/ \E c \in Callers : CallerMarkUnavailableFindById(c)
    \/ \E c \in Callers : CallerMarkUnavailableFindMax(c)
    \/ \E c \in Callers : CallerMarkUnavailableUpdate(c)

\* the callers start on a queue filled by one import, with or without one
\* attendee who was sent a QR code already
InitConc ==
    /\ pax \in {ImportPaxListResult({}, paxList).coll : paxList \in PaxLists}
    /\ \E phoneNumber \in Phones, answer \in {"found", "notFound"} :
           /\ messages = ProcessMessageLog(<<>>, "cpf", phoneNumber, TextCpf,
                                           answer, TRUE)
           /\ qrSaved = IF ProcessMessageSavesQr("cpf", TextCpf, answer, TRUE)
                        THEN {phoneNumber} ELSE {}
    /\ strictQuery \in BOOLEAN
    /\ operator = NoOperator
    /\ callers = [c \in Callers |-> IdleCaller]
    /\ turn = NoTurn
    /\ call = NoCall
    /\ conversations = [p \in Phones |-> NoConversation]
    /\ reply = NoReply
    /\ importer = NoImporter

SpecConc == InitConc /\ [][NextConc]_vars

-----------------------------------------------------------------------------
(* Writers that overlap: every await of importPaxList is a step of its own,
   and its steps interleave with the steps of markPaxAsUnavailable requests
   that name an entry of the collection. *)

\* a request markPaxAsUnavailable(paxId) for an entry of the collection: of
\* the entry the request carries the id alone
CallerRequestsMark(c) ==
    /\ callers[c].pc = "idle"
    /\ \E d \in pax :
           callers' = [callers EXCEPT ![c] =
                          [IdleCaller EXCEPT !.pc = "got",
                                             !.nextPax = [NoPax EXCEPT
                                                             !.id = d.id]]]
    /\ UNCHANGED <<store, operator, turn, aside>>

\* what markPaxAsUnavailable returns after its findByIdAndUpdate
CallerMarkUnavailableReply(coll, paxId, newSequenceId) ==
    LET upd == PaxFindByIdAndUpdate(coll, paxId,
                   [unavailable |-> TRUE, sequenceId |-> newSequenceId])
    IN  [success |-> upd.outcome = "ok",
         message |-> CASE upd.outcome = "ok" ->
                              "marked as unavailable and moved to end of queue"
                       [] upd.outcome = "none" -> "Error updating pax"
                       [] OTHER -> "Internal error marking pax as unavailable"]

\* the loop of importPaxList moves on to the next candidate
ImporterContinue(state) ==
    [state EXCEPT !.paxList = Tail(@),
                  !.pc = IF Tail(state.paxList) = <<>> THEN "done"
                         ELSE "findOne"]

\* importPaxList: const maxSequence = await Pax.findOne(...).sort(...)
ImporterFindMax ==
    /\ importer.pc = "idle"
    /\ importer.calls < MaxImports
    /\ \E paxList \in PaxLists :
           importer' = [NoImporter EXCEPT
                           !.pc = "findOne",
                           !.paxList = paxList,
                           !.length = Len(paxList),
                           !.countBefore = Cardinality(pax),
                           !.currentSequenceId = MaxSequenceId(pax) + 1,
                           !.calls = importer.calls]
    /\ UNCHANGED <<store, operator, callers, turn, call, conversations, reply>>

\* const existingPax = await Pax.findOne({ cpf: paxData.cpf }).lean()
ImporterFindOne ==
    /\ importer.pc = "findOne"
    /\ importer' =
           IF PaxFindOneByCpf(pax, Head(importer.paxList).cpf) # NoPax
           THEN ImporterContinue([importer EXCEPT !.duplicates = @ + 1])
           ELSE [importer EXCEPT !.pc = "create"]
    /\ UNCHANGED <<store, operator, callers, turn, call, conversations, reply>>

\* importPaxList gone wrong: a candidate whose create is rejected is counted
\* as a duplicate as well
ImporterCreateCountsTwice ==
    /\ importer.pc = "create"
    /\ importer.currentSequenceId <= MaxSeq
    /\ LET paxData == Head(importer.paxList)
           created == PaxCreate(pax,
                          [cpf |-> Trim(paxData.cpf),
                           phoneNumber |-> Trim(paxData.phoneNumber),
                           sent |-> FALSE,
                           sequenceId |-> importer.currentSequenceId])
       IN  /\ pax' = created.coll
           /\ importer' =
                  ImporterContinue(
                      IF created.threw
                      THEN [importer EXCEPT !.currentSequenceId = @ + 1,
                                            !.errors = @ + 1,
                                            !.duplicates = @ + 1]
                      ELSE [importer EXCEPT !.currentSequenceId = @ + 1,
                                            !.imported = @ + 1])
    /\ UNCHANGED <<messages, qrSaved, strictQuery, operator, callers, turn,
                   call, conversations, reply>>

\* await Pax.create({.., sequenceId: currentSequenceId++}), and the catch of
\* the loop
ImporterCreate ==
    /\ importer.pc = "create"
    /\ importer.currentSequenceId <= MaxSeq
    /\ LET paxData == Head(importer.paxList)
           created == PaxCreate(pax,
                          [cpf |-> Trim(paxData.cpf),
                           phoneNumber |-> Trim(paxData.phoneNumber),
                           sent |-> FALSE,
                           sequenceId |-> importer.currentSequenceId])
       IN  /\ pax' = created.coll
           /\ importer' =
                  ImporterContinue(
                      IF created.threw
                      THEN [importer EXCEPT !.currentSequenceId = @ + 1,
                                            !.errors = @ + 1]
                      ELSE [importer EXCEPT !.currentSequenceId = @ + 1,
                                            !.imported = @ + 1])
    /\ UNCHANGED <<messages, qrSaved, strictQuery, operator, callers, turn,
                   call, conversations, reply>>

\* return { success: true, imported, errors, duplicates, message }
ImporterReturn ==
    /\ importer.pc = "done"
    /\ importer' = [NoImporter EXCEPT !.calls = importer.calls + 1]
    /\ UNCHANGED <<store, operator, callers, turn, call, conversations, reply>>

NextWriters ==
    \/ \E c \in Callers : CallerRequestsMark(c)
    \/ \E c \in Callers : CallerMarkUnavailableFindById(c)
    \/ \E c \in Callers : CallerMarkUnavailableFindMax(c)
    \/ \E c \in Callers : CallerMarkUnavailableUpdate(c)
    \/ ImporterFindMax
    \/ ImporterFindOne
    \/ ImporterCreate
    \/ ImporterReturn

\* the writers start on a queue filled by one import
InitWriters ==
    /\ pax \in {ImportPaxListResult({}, paxList).coll : paxList \in PaxLists}
    /\ messages = <<>>
    /\ qrSaved = {}
    /\ strictQuery \in BOOLEAN
    /\ operator = NoOperator
    /\ callers = [c \in Callers |-> IdleCaller]
    /\ turn = NoTurn
    /\ call = NoCall
    /\ conversations = [p \in Phones |-> NoConversation]
    /\ reply = NoReply
    /\ importer = NoImporter

SpecWriters == InitWriters /\ [][NextWriters]_vars

-----------------------------------------------------------------------------
(* Properties of the queue under requests run one after the other *)

\* the exclusion set: the phones with an outbound image record that
\* saveMessage was asked to mark as a QR delivery
ExclusionSet == qrSaved

\* an entry getNextPaxInQueue is meant to serve
Eligible(d) == ~d.sent /\ d.phoneNumber \notin ExclusionSet

\* C1: after any sequence of importPaxList, markPaxAsSent and
\* markPaxAsUnavailable requests, each run to completion, no two entries
\* have the same sequenceId
C1_SequenceIdsUnique ==
    \A d, e \in pax : d # e => d.sequenceId # e.sequenceId

\* three entries, one of them recycled and another one sent
C1_Witness ==
    /\ Cardinality(pax) = 3
    /\ \E d, e \in pax : d # e /\ d.unavailable /\ e.sent

\* C2: a successful getNextPaxInQueue never returns an entry with
\* sent = true and never one whose phoneNumber is in the exclusion set
C2_NeverSentNorExcluded ==
    LET r == GetNextPaxInQueueResult(pax, messages)
    IN  r.success => ~r.pax.sent /\ r.pax.phoneNumber \notin ExclusionSet

\* C3: whenever an entry is eligible, getNextPaxInQueue returns the eligible
\* entry with the smallest sequenceId; it reports an empty queue only when
\* no entry is eligible
C3_SmallestEligible ==
    LET r == GetNextPaxInQueueResult(pax, messages)
    IN  IF \E d \in pax : Eligible(d)
        THEN /\ r.success
             /\ Eligible(r.pax)
             /\ r.pax \in pax
             /\ \A d \in pax : Eligible(d) => r.pax.sequenceId <= d.sequenceId
        ELSE ~r.success

\* C4: once an entry has sent = true no request sets it back to false, and
\* getNextPaxInQueue never returns it
C4_SentIsTerminal ==
    /\ [][\A d \in pax : d.sent => \E e \in pax' : e.id = d.id /\ e.sent]_vars
    /\ [](\A d \in pax :
            d.sent => GetNextPaxInQueueResult(pax, messages).pax.id # d.id)

\* a sent entry that markPaxAsUnavailable was called on, while another entry
\* is being served
C4_Witness ==
    \E d \in pax :
        /\ d.sent /\ d.unavailable
        /\ d.sequenceId = MaxSequenceId(pax)
        /\ GetNextPaxInQueueResult(pax, messages).success

\* C5: a step that recycles an entry (gives it a new sequenceId) leaves it
\* with unavailable = true and a sequenceId above that of every other entry,
\* sent or not
C5_RecycledToTail ==
    [][\A d \in pax, e \in pax' :
          (e.id = d.id /\ e.sequenceId # d.sequenceId) =>
              /\ e.unavailable
              /\ \A o \in pax' \ {e} : e.sequenceId > o.sequenceId]_vars

\* the recycled entry held the maximum before the call (its old sequenceId,
\* one below the new, is now free), and a sent entry is in the set
C5_Witness ==
    \E d, e \in pax :
        /\ d # e /\ e.sent /\ d.unavailable
        /\ d.sequenceId = MaxSequenceId(pax)
        /\ \A o \in pax : o.sequenceId # d.sequenceId - 1

\* candidate i of paxList carries a cpf that an entry of coll or an earlier
\* candidate of the list already has
CpfKnown(coll, paxList, i) ==
    \/ \E d \in coll : d.cpf = Trim(paxList[i].cpf)
    \/ \E j \in 1..(i - 1) : Trim(paxList[j].cpf) = Trim(paxList[i].cpf)

\* C8: importPaxList never creates a second entry for a cpf: no two entries
\* share a cpf; for every list, the candidates whose cpf is already known
\* (from the set, sent or not, or from earlier in the list) are exactly the
\* ones counted as duplicates and the others are the ones added; the same
\* one-element list imported twice is 1 imported (or already a duplicate),
\* then 1 duplicate
C8_NoSecondEntryPerCpf ==
    /\ \A d, e \in pax : d # e => d.cpf # e.cpf
    /\ \A paxList \in PaxLists :
          LET r == ImportPaxListResult(pax, paxList)
              known == {i \in 1..Len(paxList) : CpfKnown(pax, paxList, i)}
          IN  /\ r.result.duplicates = Cardinality(known)
              /\ r.result.imported = Len(paxList) - Cardinality(known)
              /\ Cardinality(r.coll) = Cardinality(pax) + r.result.imported
              /\ \A d, e \in r.coll : d # e => d.cpf # e.cpf
    /\ \A c \in PaxImportData :
          LET first == ImportPaxListResult(pax, <<c>>)
              second == ImportPaxListResult(first.coll, <<c>>)
          IN  /\ first.result.imported + first.result.duplicates = 1
              /\ second.result.imported = 0
              /\ second.result.duplicates = 1
              /\ second.coll = first.coll

\* Ana's entry is marked sent and another entry exists: Ana's cpf, as
\* imported or with a blank after it, is a duplicate from here on
C8_Witness ==
    /\ Cardinality(pax) >= 2
    /\ \E d \in pax : d.sent /\ d.cpf = CpfA
    /\ ImportPaxListResult(pax, <<[cpf |-> CpfAPadded, phoneNumber |-> PhoneA]>>)
           .result.duplicates = 1

\* C9: for every list, the k-th candidate that importPaxList adds becomes an
\* entry with sent = false, unavailable = false and sequenceId = (maximum
\* before the batch) + k, so new entries sort after every earlier entry and
\* in the order of the list
C9_ImportAppendsInOrder ==
    \A paxList \in PaxLists :
        LET r == ImportPaxListResult(pax, paxList)
            seed == MaxSequenceId(pax) + 1
            added == {i \in 1..Len(paxList) : ~CpfKnown(pax, paxList, i)}
        IN  /\ pax = {} => seed = 1
            /\ \A i \in added :
                  \E d \in r.coll \ pax :
                      /\ d.cpf = Trim(paxList[i].cpf)
                      /\ ~d.sent /\ ~d.unavailable
                      /\ d.sequenceId =
                             seed + Cardinality({j \in added : j < i})
            /\ \A d \in r.coll \ pax, e \in pax : d.sequenceId > e.sequenceId
            /\ pax \subseteq r.coll

\* an entry imported after another one was recycled: its sequenceId is the
\* maximum and is larger than the number of entries
C9_Witness ==
    \E d, e \in pax :
        /\ d.unavailable
        /\ ~e.sent /\ ~e.unavailable
        /\ e.sequenceId = MaxSequenceId(pax)
        /\ e.sequenceId > d.sequenceId
        /\ e.sequenceId > Cardinality(pax)

\* C11: once a turn on the found path has saved its outbound image record
\* marked as a QR delivery for a phone, the queue has that phone in the
\* exclusion set it computes: getNextPaxInQueue returns no entry with that
\* phone and getQueueStats counts the phone in withQRCode
C11_QrDeliveryExcludes ==
    \A p \in qrSaved :
        /\ p \in PhonesWithQRCode(messages)
        /\ LET r == GetNextPaxInQueueResult(pax, messages)
           IN  r.success => r.pax.phoneNumber # p
        /\ GetQueueStatsResult(pax, messages).withQRCode >= Cardinality(qrSaved)

-----------------------------------------------------------------------------
(* Properties of the queue worked by an operator *)

EligibleId(paxId) == \E d \in pax : d.id = paxId /\ Eligible(d)

\* C6: when the operator marks the entry e they were given unavailable, the
\* call succeeds and another entry is eligible, getNextPaxInQueue called next
\* succeeds and returns an entry other than e
C6_RecycledDoesNotBlock ==
    [][(/\ operator.pc = "mark"
        /\ operator'.pc = "fetch"
        /\ operator'.recycled = operator.held
        /\ \E d \in pax : Eligible(d) /\ d.id # operator.held)
       => LET r == GetNextPaxInQueueResult(pax', messages')
          IN  r.success /\ r.pax.id # operator.held]_vars

\* the operator recycled an entry, which is still eligible, and was then
\* given another one
C6_Witness ==
    /\ operator.pc = "mark"
    /\ operator.recycled # -1
    /\ operator.held # operator.recycled
    /\ EligibleId(operator.recycled)
    /\ PaxFindById(pax, operator.recycled).unavailable

\* C7: marking an entry unavailable leaves it pending, and under the operator
\* loop every entry that is pending and not excluded is eventually handed to
\* the operator, unless it stops being pending or becomes excluded
C7_EligibleIsEventuallyServed ==
    /\ [][(operator.pc = "mark" /\ operator'.recycled = operator.held)
            => ~PaxFindById(pax', operator.held).sent]_vars
    /\ \A paxId \in PaxIds :
           EligibleId(paxId) ~>
               ((operator.pc = "mark" /\ operator.held = paxId)
                \/ ~EligibleId(paxId))

\* an entry flagged unavailable is in the operator's hands again
C7_Witness ==
    /\ operator.pc = "mark"
    /\ PaxFindById(pax, operator.held).unavailable
    /\ EligibleId(operator.held)
    /\ Cardinality({d \in pax : Eligible(d)}) >= 2

-----------------------------------------------------------------------------
(* Properties of overlapping requests *)

\* caller c holds an entry that nobody has marked since it was selected
HoldsUnmarked(c) ==
    /\ callers[c].pc = "got"
    /\ callers[c].nextPax \in pax

\* C10: getNextPaxInQueue claims nothing.  None of its steps writes to the
\* collection, and while a caller holds an entry that nobody has marked and
\* that is still the first of the queue, the selection of another caller
\* yields that very entry
C10_SelectionIsNotExclusive ==
    /\ [][\A c \in Callers :
             (callers[c].pc \in {"idle", "findOne", "empty", "position",
                                 "total", "unavailable"}
              /\ callers'[c] # callers[c]) => pax' = pax]_vars
    /\ [][\A c \in Callers : \A o \in Callers \ {c} :
             (/\ callers[c].pc = "findOne"
              /\ callers'[c] # callers[c]
              /\ HoldsUnmarked(o)
              /\ callers[o].nextPax \in InQueue(pax, callers[c].phonesWithQRCode)
              /\ \A d \in InQueue(pax, callers[c].phonesWithQRCode) :
                     callers[o].nextPax.sequenceId <= d.sequenceId)
             => callers'[c].nextPax = callers[o].nextPax]_vars

\* both callers were given the same entry and neither has marked it
C10_Witness ==
    /\ HoldsUnmarked("c1")
    /\ HoldsUnmarked("c2")
    /\ callers["c1"].nextPax = callers["c2"].nextPax

-----------------------------------------------------------------------------
(* Properties of one intake turn *)

\* the gateway calls and the registry calls of the last turn
TurnSends == EventsOf(turn.events, "send")
TurnLookups == EventsOf(turn.events, "registry")

\* the digits of the inbound text, and the tax-ID candidate made of them
TurnDigits == CleanCpf(turn.messageText)
TurnCandidate ==
    IF Len(TurnDigits) = 10 THEN <<"0">> \o TurnDigits ELSE TurnDigits

\* section 4.1: 11 digits, not all identical, both check digits right; or
\* the email pattern in email mode
LocallyValid ==
    IF turn.flowType = "email"
    THEN EmailRegexTest(Trim(turn.messageText))
    ELSE /\ Len(TurnCandidate) = 11
         /\ \E i \in 1..11 : TurnCandidate[i] # TurnCandidate[1]
         /\ CalculateCpfDigit(TurnCandidate, 9) = DigitValue(TurnCandidate[10])
         /\ CalculateCpfDigit(TurnCandidate, 10) = DigitValue(TurnCandidate[11])

\* C12: in tax-ID mode a text without digits gets exactly one text, the
\* initial prompt, and no registry call; a digit count other than 0, 10 and
\* 11 gets exactly one text, the invalid-format one, and no registry call;
\* 10 or 11 digits go on to tax-ID validation
C12_ClassifiedByDigitCount ==
    (turn.number > 0 /\ turn.flowType = "cpf") =>
        /\ Len(TurnSends) = 1
        /\ Len(TurnDigits) = 0 =>
               /\ EventKind(TurnSends[1]) = "text"
               /\ EventWhat(TurnSends[1]) = "initial_prompt"
               /\ TurnLookups = <<>>
        /\ Len(TurnDigits) \notin {0, 10, 11} =>
               /\ EventKind(TurnSends[1]) = "text"
               /\ EventWhat(TurnSends[1]) = "invalid_format"
               /\ TurnLookups = <<>>
        /\ Len(TurnDigits) \in {10, 11} =>
               /\ EventWhat(TurnSends[1]) \notin {"initial_prompt", "invalid_format"}
               /\ LocallyValid <=> TurnLookups # <<>>

\* a text of ten digits went on to validation and reached the registry
C12_Witness ==
    /\ turn.flowType = "cpf"
    /\ Len(TurnDigits) = 10
    /\ TurnLookups # <<>>

C14_LookupOnlyWhenValid ==
    /\ Len(TurnLookups) <= 1
    /\ TurnLookups # <<>> => LocallyValid
    /\ \A i \in 1..Len(turn.events) :
           (EventEv(turn.events[i]) = "send" /\ EventKind(turn.events[i]) = "image")
           => \E j \in 1..(i - 1) :
                 /\ EventEv(turn.events[j]) = "registry"
                 /\ EventWhat(turn.events[j]) = "found"

\* eleven digits with a wrong check digit were turned down without a lookup
C14_Witness ==
    /\ turn.flowType = "cpf"
    /\ turn.messageText = TextCpfBadCheck
    /\ turn.answer = "found"
    /\ TurnLookups = <<>>
    /\ EventWhat(TurnSends[1]) = "invalid_cpf"

\* C15: a lookup that fails is a lookup that did not find: the user gets
\* the 'not found' text and not the generic error text, no image is sent
\* and the turn resolves as a not-found turn does
C15_FailedLookupIsNotFound ==
    (TurnLookups # <<>> /\ turn.answer = "failed")
    => /\ ~ValidationFound(turn.answer)
       /\ TurnSends = <<Event("send", "text", "not_found", turn.sendOk)>>
       /\ turn.result.success
       /\ turn.result.action \in {"cpf_not_found", "email_not_found"}
       /\ EventsOf(turn.events, "qrcode") = <<>>

\* the registry failed on a valid tax-ID
C15_Witness ==
    /\ turn.flowType = "cpf"
    /\ turn.messageText = TextCpf
    /\ turn.answer = "failed"
    /\ TurnLookups # <<>>
    /\ EventWhat(TurnSends[1]) = "not_found"

\* C16: when a step of the lookup-and-respond sequence raises an exception
\* the turn sends the generic error text and resolves with action 'error',
\* and every turn resolves with a result
C16_ExceptionGetsErrorText ==
    /\ (\E i \in 1..Len(turn.events) : ~EventOk(turn.events[i])
                                         /\ EventEv(turn.events[i]) = "qrcode")
       => /\ TurnSends = <<Event("send", "text", "error", turn.sendOk)>>
          /\ turn.result.action = "error"
          /\ ~turn.result.success
    /\ turn.number > 0 =>
           turn.result.action \in {"initial_prompt", "cpf_found",
                                   "cpf_not_found", "email_found",
                                   "email_not_found", "error"}

\* building the image raised an exception and the user got the error text
C16_Witness ==
    /\ turn.answer = "found"
    /\ ~turn.qrOk
    /\ TurnLookups # <<>>
    /\ turn.result.action = "error"

\* C17: the first step of every turn records the inbound message, before
\* the text is classified, the registry is called or anything is sent
C17_InboundRecordedFirst ==
    turn.number > 0 =>
        /\ turn.events[1] = Event("save", "text", "in", TRUE)
        /\ \E i \in 1..Len(messages) :
               /\ messages[i].from = turn.phoneNumber
               /\ messages[i].direction = "in"

\* C18: an outbound record is written right after the gateway call for that
\* message and only when the call succeeded; a QR-delivery record exists
\* only for a phone an image was sent to with success
C18_OutboundRecordedAfterSuccess ==
    \A i \in 1..Len(turn.events) :
        (/\ EventEv(turn.events[i]) = "save"
         /\ EventWhat(turn.events[i]) = "out"
         /\ EventOk(turn.events[i]))
        => /\ i > 1
           /\ EventEv(turn.events[i - 1]) = "send"
           /\ EventKind(turn.events[i - 1]) = EventKind(turn.events[i])
           /\ EventOk(turn.events[i - 1])

\* C19: every turn makes exactly one gateway call, a text or an image; a
\* call that fails is not made again and the turn resolves as it does when
\* the call succeeds
C19_OneSendAttempt ==
    turn.number > 0 =>
        /\ Len(TurnSends) = 1
        /\ EventKind(TurnSends[1]) \in {"text", "image"}
        /\ EventOk(TurnSends[1]) = turn.sendOk
        /\ turn.result = ProcessMessageResult(turn.flowType,
               ProcessMessageEvents(turn.flowType, turn.messageText,
                                    turn.answer, turn.qrOk, TRUE, turn.storeOk))
        /\ EventEv(turn.events[Len(turn.events)]) = "save"

\* the gateway refused the image; the turn made the one call and resolved
C19_Witness ==
    /\ ~turn.sendOk
    /\ TurnSends = <<Event("send", "image", "found_caption", FALSE)>>
    /\ turn.result.success

C21_NoSecondImage ==
    [][(/\ turn.number > 0
        /\ turn'.number = turn.number + 1
        /\ turn'.flowType = turn.flowType
        /\ turn'.phoneNumber = turn.phoneNumber
        /\ turn'.messageText = turn.messageText
        /\ \E i \in 1..Len(turn.events) :
               /\ EventEv(turn.events[i]) = "send"
               /\ EventKind(turn.events[i]) = "image"
               /\ EventOk(turn.events[i]))
       => \A j \in 1..Len(turn'.events) :
              ~(/\ EventEv(turn'.events[j]) = "send"
                /\ EventKind(turn'.events[j]) = "image")]_vars

\* C22: the stores only grow: every step keeps each record of the message
\* log as it is and where it is, and keeps every queue entry (by id) in the
\* queue
C22_AppendOnly ==
    [][/\ Len(messages') >= Len(messages)
       /\ SubSeq(messages', 1, Len(messages)) = messages
       /\ \A d \in pax : \E e \in pax' : e.id = d.id]_vars

\* two deliveries are on record, the second written after the first, and the
\* queue holds an entry marked sent and an entry sent to the tail
C22_Witness ==
    /\ Len(messages) = 4
    /\ messages[1].from = messages[3].from
    /\ \E d \in pax : d.sent
    /\ \E d \in pax : d.unavailable

\* C23: getNextPaxInQueue, when it succeeds, reports the returned entry's
\* 1-based rank among the eligible entries in sequenceId order, the number
\* of eligible entries and the number of eligible entries flagged
\* unavailable; when no entry is eligible it fails and returns no entry
C23_ReportsQueueCounts ==
    LET r == GetNextPaxInQueueResult(pax, messages)
        eligible == {d \in pax : Eligible(d)}
    IN  /\ r.success =>
              /\ r.queuePosition =
                     Cardinality({d \in eligible :
                                     d.sequenceId <= r.pax.sequenceId})
              /\ r.totalInQueue = Cardinality(eligible)
              /\ r.unavailableCount =
                     Cardinality({d \in eligible : d.unavailable})
        /\ eligible = {} => ~r.success /\ r.pax = NoPax

\* C24: getQueueStats reports the number of entries, the number marked
\* sent, their difference as pending, the size of the exclusion set, the
\* number of entries getNextPaxInQueue may serve and the number of entries
\* flagged unavailable; so nextInQueue <= pending <= total
C24_StatsAreCounts ==
    LET r == GetQueueStatsResult(pax, messages)
    IN  /\ r.total = Cardinality(pax)
        /\ r.sent = Cardinality({d \in pax : d.sent})
        /\ r.pending = r.total - r.sent
        /\ r.withQRCode = Cardinality(ExclusionSet)
        /\ r.nextInQueue = Cardinality({d \in pax : Eligible(d)})
        /\ r.unavailable = Cardinality({d \in pax : d.unavailable})
        /\ r.nextInQueue <= r.pending
        /\ r.pending <= r.total

\* C25: in tax-ID mode a text with exactly ten digits is handled as the
\* text made of "0" followed by those ten digits is: the same steps in the
\* same order and the same result
C25_TenDigitsPadded ==
    (turn.number > 0 /\ turn.flowType = "cpf" /\ Len(TurnDigits) = 10) =>
        LET padded == ProcessMessageEvents("cpf", <<"0">> \o TurnDigits,
                                           turn.answer, turn.qrOk,
                                           turn.sendOk, turn.storeOk)
        IN  /\ turn.events = padded
            /\ turn.result = ProcessMessageResult("cpf", padded)

\* ten digits that make a valid tax-ID once padded were looked up, found and
\* answered with the image
C25_Witness ==
    /\ turn.flowType = "cpf"
    /\ turn.messageText = TextCpfTenDigits
    /\ Len(TurnLookups) = 1
    /\ turn.result.action = "cpf_found"

\* C26: in tax-ID mode a candidate of eleven identical digits is invalid,
\* although its check digits fit: the turn sends the invalid-CPF text, once,
\* and does not call the registry
C26_RepeatedDigitsInvalid ==
    (/\ turn.number > 0
     /\ turn.flowType = "cpf"
     /\ Len(TurnCandidate) = 11
     /\ \A i \in 1..11 : TurnCandidate[i] = TurnCandidate[1])
    => /\ TurnLookups = <<>>
       /\ TurnSends = <<Event("send", "text", "invalid_cpf", turn.sendOk)>>

\* eleven ones came in; their check digits fit, and the turn sent the
\* invalid-CPF text
C26_Witness ==
    /\ turn.flowType = "cpf"
    /\ turn.messageText = TextCpfRepeated
    /\ CalculateCpfDigit(TurnCandidate, 9) = DigitValue(TurnCandidate[10])
    /\ CalculateCpfDigit(TurnCandidate, 10) = DigitValue(TurnCandidate[11])
    /\ EventWhat(TurnSends[1]) = "invalid_cpf"
    /\ turn.answer = "found"

-----------------------------------------------------------------------------
(* Properties of the functions without side effects *)

\* the value of the digit at a 0-based position
DigitAt(d, position) == DigitValue(d[position + 1])

\* the check digit for a weighted sum
CheckDigitFor(sum) == IF sum % 11 < 2 THEN 0 ELSE 11 - (sum % 11)

\* positions 0..8 with weights 10..2
FirstCheckDigit(d) ==
    CheckDigitFor(10 * DigitAt(d, 0) + 9 * DigitAt(d, 1) + 8 * DigitAt(d, 2)
                  + 7 * DigitAt(d, 3) + 6 * DigitAt(d, 4) + 5 * DigitAt(d, 5)
                  + 4 * DigitAt(d, 6) + 3 * DigitAt(d, 7) + 2 * DigitAt(d, 8))

\* positions 0..9 with weights 11..2
SecondCheckDigit(d) ==
    CheckDigitFor(11 * DigitAt(d, 0) + 10 * DigitAt(d, 1) + 9 * DigitAt(d, 2)
                  + 8 * DigitAt(d, 3) + 7 * DigitAt(d, 4) + 6 * DigitAt(d, 5)
                  + 5 * DigitAt(d, 6) + 4 * DigitAt(d, 7) + 3 * DigitAt(d, 8)
                  + 2 * DigitAt(d, 9))

\* C27: isValidCpf called on eleven digits returns true exactly when the
\* digits are not all the same, the tenth is the check digit of the first
\* nine and the eleventh is the check digit of the first ten; a call with the
\* argument of the call before returns what that call returned
C27_IsValidCpfIsTheRule ==
    [][call'.fn = "isValidCpf" =>
          /\ call'.out <=>
                 /\ \E i \in 1..11 : call'.arg[i] # call'.arg[1]
                 /\ DigitAt(call'.arg, 9) = FirstCheckDigit(call'.arg)
                 /\ DigitAt(call'.arg, 10) = SecondCheckDigit(call'.arg)
          /\ (call.fn = "isValidCpf" /\ call.arg = call'.arg)
                 => call'.out = call.out]_vars

\* a tax-ID whose second check digit is 0 by the remainder rule was found
\* valid, twice in a row
C27_Witness ==
    /\ call.fn = "isValidCpf"
    /\ call.number = 2
    /\ call.out
    /\ call.arg[11] = "0"
    /\ call.arg[1] = "0"

-----------------------------------------------------------------------------
(* Properties of one intake turn in email mode *)

\* the inbound text holds an "@"
TurnHasAt == \E i \in 1..Len(turn.messageText) : turn.messageText[i] = "@"

\* the three outcomes of an email-mode turn: a registry lookup; one
\* invalid-format text and no lookup; one initial-prompt text and no lookup
TurnLooksUp == Len(TurnLookups) = 1
TurnSaysInvalidFormat ==
    /\ TurnLookups = <<>>
    /\ TurnSends = <<Event("send", "text", "invalid_format", turn.sendOk)>>
TurnSaysInitialPrompt ==
    /\ TurnLookups = <<>>
    /\ TurnSends = <<Event("send", "text", "initial_prompt", turn.sendOk)>>

C29_CodecRoundTrip ==
    call.fn \in {"generateQRCode", "processCPF"} =>
        call.out.data = [isNull |-> FALSE, SearchKey |-> call.arg]

-----------------------------------------------------------------------------
(* Properties of the persisted flow *)

\* the sends of the last delivery of the persisted flow, in order
ReplySends == EventsOf(reply.events, "send")

\* C30: a message without a valid CPF that reaches a conversation awaiting a
\* CPF keeps it there and is answered with the validation prompt while the
\* conversation has handled fewer than two such messages since it came to
\* await a CPF; the third in a row closes it as resolved_not_found and is
\* answered with the generic error text alone.
C30_ThreeInvalidAttempts ==
    [][(/\ reply'.number = reply.number + 1
        /\ reply'.before.state = "awaiting_cpf"
        /\ reply'.extractedCpf = <<>>)
       => LET phoneNumber == reply'.phoneNumber
              sends == EventsOf(reply'.events, "send")
          IN  /\ Len(sends) = 1
              /\ EventKind(sends[1]) = "text"
              /\ reply.seen[phoneNumber] < 2
                   => /\ conversations'[phoneNumber].state = "awaiting_cpf"
                      /\ EventWhat(sends[1]) = "invalid_cpf"
              /\ reply.run[phoneNumber] = 2
                   => /\ conversations'[phoneNumber].state
                            = "resolved_not_found"
                      /\ EventWhat(sends[1]) = "error"]_vars

\* the third message in a row without a valid CPF has closed a conversation
C30_Witness ==
    /\ reply.number >= 4
    /\ reply.before.state = "awaiting_cpf"
    /\ reply.before.attempts = 2
    /\ reply.extractedCpf = <<>>
    /\ conversations[reply.phoneNumber].state = "resolved_not_found"
    /\ conversations[reply.phoneNumber].attempts = 3
    /\ Len(ReplySends) = 1
    /\ EventWhat(ReplySends[1]) = "error"

\* C31: a conversation closed for the limit of three invalid attempts is
\* reset by itself: the next delivery from its phone, whatever it holds,
\* finds or leaves the attempt counter at 0.
C31_ResetAfterLimit ==
    [][(/\ reply'.number = reply.number + 1
        /\ reply'.before.state = "resolved_not_found"
        /\ reply'.before.attempts >= 3)
       => conversations'[reply'.phoneNumber].attempts = 0]_vars

\* C32: a delivery that finds the conversation in resolved_found and holds
\* the CPF it was resolved with calls no registry, sends no image and one
\* text, and leaves the document as it was; one that holds another valid CPF
\* resets the document to that CPF with no attempts counted and makes exactly
\* one lookup.
C32_ResolvedFoundNotReprocessed ==
    [][(/\ reply'.number = reply.number + 1
        /\ reply'.before.state = "resolved_found")
       => LET phoneNumber == reply'.phoneNumber
              sends == EventsOf(reply'.events, "send")
              lookups == EventsOf(reply'.events, "registry")
          IN  /\ reply'.extractedCpf = reply'.before.cpf
                   => /\ lookups = <<>>
                      /\ Len(sends) = 1
                      /\ EventKind(sends[1]) = "text"
                      /\ EventsOf(reply'.events, "qrcode") = <<>>
                      /\ conversations'[phoneNumber] = reply'.before
              /\ (reply'.extractedCpf # <<>>
                  /\ reply'.extractedCpf # reply'.before.cpf)
                   => /\ Len(lookups) = 1
                      /\ conversations'[phoneNumber].cpf = reply'.extractedCpf
                      /\ conversations'[phoneNumber].attempts = 0]_vars

\* a conversation resolved with one CPF has been sent another valid one and
\* was looked up anew
C32_Witness ==
    /\ reply.before.state = "resolved_found"
    /\ reply.before.cpf # <<>>
    /\ reply.extractedCpf # <<>>
    /\ reply.extractedCpf # reply.before.cpf
    /\ Len(EventsOf(reply.events, "registry")) = 1
    /\ conversations[reply.phoneNumber].cpf = reply.extractedCpf

-----------------------------------------------------------------------------
(* Properties of overlapping writers *)

\* no two entries share a sequenceId
SequenceIdsDistinct ==
    \A d1 \in pax, d2 \in pax : d1.sequenceId = d2.sequenceId => d1 = d2

\* C33: while markPaxAsUnavailable requests and an import interleave between
\* reading the maximum sequenceId and writing, no two entries ever share a
\* sequenceId; a mark whose number was taken by another entry meanwhile
\* changes nothing and reports failure; a candidate of the import whose
\* number was taken meanwhile is not inserted and is counted as an error.
C33_UniqueUnderInterleaving ==
    /\ []SequenceIdsDistinct
    /\ [][\A c \in Callers :
             (/\ callers[c].pc = "update"
              /\ callers'[c].pc = "idle"
              /\ \E d \in pax : /\ d.id # callers[c].nextPax.id
                                 /\ d.sequenceId = callers[c].newSequenceId)
             => /\ pax' = pax
                /\ ~CallerMarkUnavailableReply(pax, callers[c].nextPax.id,
                        callers[c].newSequenceId).success]_vars
    /\ [][(/\ importer.pc = "create"
            /\ importer'.pc # "create"
            /\ \E d \in pax : d.sequenceId = importer.currentSequenceId)
           => /\ pax' = pax
              /\ importer'.errors = importer.errors + 1
              /\ importer'.imported = importer.imported]_vars

\* the import has counted an error for a number a mark took meanwhile, and
\* a mark is about to write a number another entry took meanwhile
C33_Witness ==
    /\ importer.errors >= 1
    /\ \E c \in Callers :
           /\ callers[c].pc = "update"
           /\ \E d \in pax : /\ d.id # callers[c].nextPax.id
                              /\ d.sequenceId = callers[c].newSequenceId

\* C34: whatever interleaves between the reads of getNextPaxInQueue, a
\* result it returns with an entry has 1 <= queuePosition <= totalInQueue
\* and unavailableCount <= totalInQueue.
C34_CountsConsistentUnderInterleaving ==
    \A c \in Callers :
        callers[c].pc = "got"
        => /\ 1 <= callers[c].queuePosition
           /\ callers[c].queuePosition <= callers[c].totalInQueue
           /\ callers[c].unavailableCount <= callers[c].totalInQueue

-----------------------------------------------------------------------------
(* Frame conditions and results of the queue's operations *)

\* C35: in every reachable state and for every id, markPaxAsSent leaves the
\* target with its sequenceId, unavailable flag, cpf and phone, and
\* markPaxAsUnavailable leaves it with its sent flag, cpf and phone; both
\* leave every other entry as it is and add or remove none, so the other
\* entries keep their order.
C35_MarksChangeOnlyTheirTarget ==
    \A paxId \in PaxIds :
        LET target == PaxFindById(pax, paxId)
            sent == MarkPaxAsSentResult(pax, paxId)
            unavailable == MarkPaxAsUnavailableResult(pax, paxId)
            sentTarget == PaxFindById(sent.coll, paxId)
            unavailableTarget == PaxFindById(unavailable.coll, paxId)
        IN  /\ \A d \in pax : d.id # paxId
                   => d \in sent.coll /\ d \in unavailable.coll
            /\ {d.id : d \in sent.coll} = {d.id : d \in pax}
            /\ {d.id : d \in unavailable.coll} = {d.id : d \in pax}
            /\ Cardinality(sent.coll) = Cardinality(pax)
            /\ Cardinality(unavailable.coll) = Cardinality(pax)
            /\ sentTarget = [target EXCEPT !.sent = sentTarget.sent]
            /\ unavailableTarget =
                   [target EXCEPT
                       !.unavailable = unavailableTarget.unavailable,
                       !.sequenceId = unavailableTarget.sequenceId]
            /\ \A d \in pax, e \in pax :
                   (d.id # paxId /\ e.id # paxId)
                   => \A coll \in {sent.coll, unavailable.coll} :
                          (PaxFindById(coll, d.id).sequenceId
                               < PaxFindById(coll, e.id).sequenceId)
                          = (d.sequenceId < e.sequenceId)

\* three entries: one was marked sent, one was marked unavailable after it,
\* one was never touched
C35_Witness ==
    \E d \in pax, e \in pax, o \in pax :
        /\ d.sent /\ ~d.unavailable
        /\ e.unavailable /\ ~e.sent
        /\ ~o.sent /\ ~o.unavailable
        /\ MarkPaxAsSentResult(pax, e.id).result.success
        /\ MarkPaxAsUnavailableResult(pax, d.id).result.success

\* C36: an importPaxList call that returns has counted every candidate once
\* (imported + duplicates + errors is the length of the list) and the set
\* has grown by the number it reports as imported; a step that counts a
\* candidate as a duplicate or as an error adds no entry.
C36_ImportCountsAddUp ==
    /\ [](importer.pc = "done"
            => /\ importer.imported + importer.duplicates + importer.errors
                      = importer.length
               /\ Cardinality(pax) = importer.countBefore + importer.imported)
    /\ [][(\/ importer'.duplicates > importer.duplicates
            \/ importer'.errors > importer.errors)
           => pax' = pax]_vars

\* an import of two candidates is about to return: one was added, the
\* other was rejected for its sequenceId and counted as an error
C36_Witness ==
    /\ importer.pc = "done"
    /\ importer.length = 2
    /\ importer.imported = 1
    /\ importer.errors = 1

-----------------------------------------------------------------------------
(* Marks that name no entry *)

\* the :id values of RequestIds that match no entry of the collection
UnmatchedIds == {paxId \in RequestIds : \A d \in pax : d.id # paxId}

\* both marks, asked with paxId, fail and leave the collection and its
\* maximum sequenceId as they are
MarksFailAndChangeNothing(paxId) ==
    LET sent == MarkPaxAsSentResult(pax, paxId)
        unavailable == MarkPaxAsUnavailableResult(pax, paxId)
    IN  /\ ~sent.result.success
        /\ ~unavailable.result.success
        /\ sent.coll = pax
        /\ unavailable.coll = pax
        /\ MaxSequenceId(sent.coll) = MaxSequenceId(pax)
        /\ MaxSequenceId(unavailable.coll) = MaxSequenceId(pax)

\* C37: in every reachable state, markPaxAsSent and markPaxAsUnavailable
\* asked with an id that matches no entry fail and leave every entry and
\* the maximum sequenceId unchanged; the message is 'Pax not found' when the
\* id is the text of an ObjectId, and the operation's 'Internal error
\* marking pax as ...' when it is not.
C37_UnknownIdChangesNothing ==
    \A paxId \in UnmatchedIds :
        /\ MarksFailAndChangeNothing(paxId)
        /\ IF CastsToObjectId(paxId)
           THEN /\ MarkPaxAsSentResult(pax, paxId).result.message
                      = "Pax not found"
                /\ MarkPaxAsUnavailableResult(pax, paxId).result.message
                      = "Pax not found"
           ELSE /\ MarkPaxAsSentResult(pax, paxId).result.message
                      = "Internal error marking pax as sent"
                /\ MarkPaxAsUnavailableResult(pax, paxId).result.message
                      = "Internal error marking pax as unavailable"

\* C37 as stated: every id that matches no entry is answered 'Pax not
\* found' by both marks, with nothing changed.
C37_UnknownIdIsNotFound ==
    \A paxId \in UnmatchedIds :
        /\ MarksFailAndChangeNothing(paxId)
        /\ MarkPaxAsSentResult(pax, paxId).result.message = "Pax not found"
        /\ MarkPaxAsUnavailableResult(pax, paxId).result.message
              = "Pax not found"

\* a queue with a recycled entry, so that its maximum sequenceId is above
\* the number of entries, asked with an ObjectId no entry has: both marks
\* answer 'Pax not found'
C37_Witness ==
    /\ Cardinality(pax) >= 2
    /\ \E d \in pax : d.unavailable /\ d.sequenceId > Cardinality(pax)
    /\ \E paxId \in UnmatchedIds :
           /\ CastsToObjectId(paxId)
           /\ MarkPaxAsSentResult(pax, paxId).result.message = "Pax not found"
           /\ MarkPaxAsUnavailableResult(pax, paxId).result.message
                 = "Pax not found"
           /\ MarkPaxAsUnavailableResult(pax, paxId).coll = pax

-----------------------------------------------------------------------------
(* The document of a conversation *)

\* the lookups of the last delivery that the registry answered with found
ReplyFoundLookups ==
    SelectSeq(EventsOf(reply.events, "registry"),
              LAMBDA e : ValidationFound(EventWhat(e)))

\* C38: whatever deliveries and resets have been handled one after the
\* other, the attempts counter of every conversation is between 0 and 3 and
\* is at most 2 while the state is awaiting_cpf; and a step puts a
\* conversation in resolved_found, or changes the CPF of one that is in
\* resolved_found, only as a delivery that holds that CPF and whose registry
\* lookup answered found.
C38_ConversationInvariant ==
    /\ [](\A phoneNumber \in ConversationPhones :
             /\ conversations[phoneNumber].attempts \in 0..3
             /\ conversations[phoneNumber].state = "awaiting_cpf"
                   => conversations[phoneNumber].attempts <= 2
             /\ conversations[phoneNumber].state = "resolved_found"
                   => conversations[phoneNumber].cpf # <<>>)
    /\ [][\A phoneNumber \in ConversationPhones :
             (/\ conversations'[phoneNumber].state = "resolved_found"
              /\ \/ conversations[phoneNumber].state # "resolved_found"
                 \/ conversations'[phoneNumber].cpf
                       # conversations[phoneNumber].cpf)
             => /\ reply'.number = reply.number + 1
                /\ reply'.phoneNumber = phoneNumber
                /\ reply'.extractedCpf = conversations'[phoneNumber].cpf
                /\ Len(ReplyFoundLookups') = 1
                /\ Len(EventsOf(reply'.events, "registry")) = 1]_vars

\* a conversation that had counted two messages without a valid CPF was sent
\* a valid one, the registry answered found, and it is resolved with that CPF
\* and the two attempts still counted
C38_Witness ==
    /\ reply.before.state = "awaiting_cpf"
    /\ reply.before.attempts = 2
    /\ reply.extractedCpf # <<>>
    /\ Len(ReplyFoundLookups) = 1
    /\ conversations[reply.phoneNumber].state = "resolved_found"
    /\ conversations[reply.phoneNumber].cpf = reply.extractedCpf
    /\ conversations[reply.phoneNumber].attempts = 2

====
